---- MODULE Spec2Model ----
(***************************************************************************)
(* Model of parquet-variant/src/builder.rs: the Variant builder tree       *)
(* (VariantBuilder, ListBuilder, ObjectBuilder), the shared                *)
(* MetadataBuilder and the byte-level encoding written by ValueBuffer.     *)
(*                                                                         *)
(* Strings are sequences of bytes, buffers are sequences of bytes          *)
(* (0..255).  The outstanding builders form a stack: stack[1] is the       *)
(* VariantBuilder, stack[i+1] is the child that holds the ParentState of   *)
(* stack[i].  Rust's borrow rules make only the last builder usable.       *)
(***************************************************************************)
EXTENDS Integers, Sequences, FiniteSets, TLC

\* ------------------------------------------------------------ bounds
\* Number of builder operations in one run.
MaxOps == 5
\* Number of builders nested below the VariantBuilder.
MaxDepth == 2

\* ------------------------------------------------------------ inputs
\* Field names, as UTF-8 bytes: "a", "ab", "b".
NameA == <<97>>
NameAB == <<97, 98>>
NameB == <<98>>
Names == {NameA, NameAB, NameB}

\* Decoded variants, as <<tag, payload>>: a list carries its elements, an
\* object its (name, value) pairs in the order obj.iter() yields them.
VNull == <<"null">>
VBool(v) == <<"bool", v>>
VInt8(v) == <<"int8", v>>
VInt16(v) == <<"int16", v>>
VInt32(v) == <<"int32", v>>
VShortString(s) == <<"short_string", s>>
VString(s) == <<"string", s>>
VList(elems) == <<"list", elems>>
VObject(pairs) == <<"object", pairs>>

\* Values handed to append_value / insert.
Values == {VNull, VInt8(42)}

\* The name lists given to with_field_names: in name order, out of name
\* order, and with a name twice.
FieldNameLists == {<<NameA, NameB>>, <<NameB, NameA>>, <<NameA, NameA>>}

\* ------------------------------------------------------------ wire constants
BASIC_TYPE_BITS == 2
BasicPrimitive == 0
BasicShortString == 1
BasicObject == 2
BasicArray == 3
PrimNull == 0
PrimBooleanTrue == 1
PrimBooleanFalse == 2
PrimInt8 == 3
PrimInt16 == 4
PrimInt32 == 5
PrimString == 16
U8_MAX == 255

Pow2(n) == 2 ^ n
Pow256(n) == 256 ^ n
Max(a, b) == IF a >= b THEN a ELSE b
Range(s) == {s[i] : i \in 1..Len(s)}

RECURSIVE Flatten(_)
\* Concatenation of a sequence of byte sequences (by halves, which keeps the
\* evaluation shallow for long sequences).
Flatten(ss) ==
    IF ss = <<>> THEN <<>>
    ELSE IF Len(ss) = 1 THEN ss[1]
    ELSE Flatten(SubSeq(ss, 1, Len(ss) \div 2))
            \o Flatten(SubSeq(ss, (Len(ss) \div 2) + 1, Len(ss)))

\* Rust's Ord for str: byte-wise lexicographic, a proper prefix is smaller.
StrLess(a, b) ==
    \E i \in 1..(Len(a) + 1) :
        /\ \A j \in 1..(i - 1) : j <= Len(b) /\ a[j] = b[j]
        /\ \/ i = Len(a) + 1 /\ Len(b) >= i
           \/ i <= Len(a) /\ i <= Len(b) /\ a[i] < b[i]

\* ------------------------------------------------------------ headers
C20_Mutant_primitive_header(primitive_type) == (primitive_type * 2 + BasicPrimitive) % 256

primitive_header(primitive_type) == (primitive_type * 4 + BasicPrimitive) % 256

short_string_header(len) == ((len % 256) * 4 + BasicShortString) % 256

\* The three bit fields do not overlap, so | is +.
array_header(large, offset_size) ==
    (IF large THEN 1 ELSE 0) * Pow2(BASIC_TYPE_BITS + 2)
        + (offset_size - 1) * Pow2(BASIC_TYPE_BITS)
        + BasicArray

object_header(large, id_size, offset_size) ==
    (IF large THEN 1 ELSE 0) * Pow2(BASIC_TYPE_BITS + 4)
        + (id_size - 1) * Pow2(BASIC_TYPE_BITS + 2)
        + (offset_size - 1) * Pow2(BASIC_TYPE_BITS)
        + BasicObject

\* int_size whose first range ends one too high.
C16_Mutant_int_size(v) ==
    IF v <= 256 THEN 1
    ELSE IF v <= 65535 THEN 2
    ELSE IF v <= 16777215 THEN 3
    ELSE 4

int_size(v) ==
    IF v <= 255 THEN 1
    ELSE IF v <= 65535 THEN 2
    ELSE IF v <= 16777215 THEN 3
    ELSE 4

\* value.to_le_bytes()[..nbytes]
write_offset(value, nbytes) ==
    [i \in 1..nbytes |-> (value \div Pow256(i - 1)) % 256]

\* append_header that writes the count as u8 whatever is_large says.
C27_Mutant_append_header(header_byte, is_large, num_items) ==
    <<header_byte, num_items % 256>>

\* The bytes append_header pushes: num_items as u32 (LE) or as u8. The
\* cast to u32 leaves a count below 2^32 as it is, and every count here is.
append_header(header_byte, is_large, num_items) ==
    <<header_byte>> \o
        (IF is_large THEN write_offset(num_items, 4)
                     ELSE <<num_items % 256>>)

\* The bytes append_offset_array pushes; data_size is <<>> (None) or <<d>>.
append_offset_array(offsets, data_size, nbytes) ==
    Flatten([i \in 1..Len(offsets) |-> write_offset(offsets[i], nbytes)])
        \o (IF data_size = <<>> THEN <<>> ELSE write_offset(data_size[1], nbytes))

append_null == <<primitive_header(PrimNull)>>

append_bool(value) ==
    <<primitive_header(IF value THEN PrimBooleanTrue ELSE PrimBooleanFalse)>>

\* value as u8: two's complement of an i8.
append_int8(value) == <<primitive_header(PrimInt8), (value + 256) % 256>>

\* value.to_le_bytes() of a signed integer of nbytes bytes: byte i of the
\* two's complement, least significant first.
to_le_bytes(value, nbytes) ==
    [i \in 1..nbytes |->
        IF value >= 0 THEN (value \div (256 ^ (i - 1))) % 256
        ELSE 255 - (((-value - 1) \div (256 ^ (i - 1))) % 256)]

append_int16(value) == <<primitive_header(PrimInt16)>> \o to_le_bytes(value, 2)

append_int32(value) == <<primitive_header(PrimInt32)>> \o to_le_bytes(value, 4)

append_short_string(inner) == <<short_string_header(Len(inner))>> \o inner

\* append_string that takes the short form for a value that fits it.
C37_Mutant_append_string(value) ==
    IF Len(value) <= 63 THEN <<short_string_header(Len(value))>> \o value
    ELSE <<primitive_header(PrimString)>> \o write_offset(Len(value), 4) \o value

\* (value.len() as u32).to_le_bytes() follows the header.
append_string(value) ==
    <<primitive_header(PrimString)>> \o write_offset(Len(value), 4) \o value

\* ------------------------------------------------------------ MetadataBuilder
\* field_names is the IndexSet in insertion order: the id of a name is its
\* position minus one.  upserts is history: every name passed to
\* upsert_field_name, in call order.
NewMetadataBuilder(metadata_buffer) ==
    [field_names |-> <<>>, is_sorted |-> FALSE, metadata_buffer |-> metadata_buffer,
     upserts |-> <<>>]

\* IndexSet::get_index_of, for a name that is present.
IndexOfName(field_names, name) ==
    (CHOOSE i \in 1..Len(field_names) : field_names[i] = name) - 1

num_field_names(md) == Len(md.field_names)

field_name(md, i) == md.field_names[i + 1]

\* upsert_field_name as a set that moves a name upserted again to the end.
C5_Mutant_upsert_field_name(md, name) ==
    LET kept == SelectSeq(md.field_names, LAMBDA x : x # name)
        names == Append(kept, name)
    IN  [md |-> [md EXCEPT !.upserts = Append(@, name), !.field_names = names,
                           !.is_sorted = Len(names) = 1],
         id |-> Len(names) - 1]

\* upsert_field_name that compares the last two names only.
C14_Mutant_upsert_field_name(md, name) ==
    IF name \in Range(md.field_names)
    THEN [md |-> [md EXCEPT !.upserts = Append(@, name)],
          id |-> IndexOfName(md.field_names, name)]
    ELSE LET names == Append(md.field_names, name)
             n == Len(names)
         IN  [md |-> [md EXCEPT
                        !.upserts = Append(@, name),
                        !.field_names = names,
                        !.is_sorted = (n = 1) \/ StrLess(names[n - 1], names[n])],
              id |-> n - 1]

\* Returns the builder after the upsert and the id of the name.
upsert_field_name(md, name) ==
    IF name \in Range(md.field_names)
    THEN [md |-> [md EXCEPT !.upserts = Append(@, name)],
          id |-> IndexOfName(md.field_names, name)]
    ELSE LET names == Append(md.field_names, name)
             n == Len(names)
         IN  [md |-> [md EXCEPT
                        !.upserts = Append(@, name),
                        !.field_names = names,
                        !.is_sorted = (n = 1) \/ (md.is_sorted /\ StrLess(names[n - 1], names[n]))],
              id |-> n - 1]

RECURSIVE extend(_, _)
\* extend that upserts the names from the last to the first.
C11_Mutant_extend(md, names) ==
    IF names = <<>> THEN md
    ELSE upsert_field_name(extend(md, Tail(names)), Head(names)).md

\* extend that stops at the first name the dictionary holds already.
C21_Mutant_extend(md, names) ==
    IF names = <<>> \/ Head(names) \in Range(md.field_names) THEN md
    ELSE extend(upsert_field_name(md, Head(names)).md, Tail(names))

\* Extend::extend: one upsert per name, in order (the first half of the
\* names, then the second, which keeps the evaluation shallow).
extend(md, names) ==
    IF names = <<>> THEN md
    ELSE IF Len(names) = 1 THEN upsert_field_name(md, names[1]).md
    ELSE extend(extend(md, SubSeq(names, 1, Len(names) \div 2)),
                SubSeq(names, (Len(names) \div 2) + 1, Len(names)))

RECURSIVE SumLen(_)
\* The sum of the lengths of the sequences in ss (by halves).
SumLen(ss) ==
    IF ss = <<>> THEN 0
    ELSE IF Len(ss) = 1 THEN Len(ss[1])
    ELSE SumLen(SubSeq(ss, 1, Len(ss) \div 2))
            + SumLen(SubSeq(ss, (Len(ss) \div 2) + 1, Len(ss)))

metadata_size(md) == SumLen(md.field_names)

\* finish that clears the buffer before it writes the blob.
C12_Mutant_MetadataFinish(md) ==
    LET nkeys == num_field_names(md)
        total_dict_size == metadata_size(md)
        offset_size == int_size(Max(total_dict_size, nkeys))
        header == 1 + (IF md.is_sorted THEN 1 ELSE 0) * 16 + (offset_size - 1) * 64
        starts == [i \in 1..nkeys |-> SumLen(SubSeq(md.field_names, 1, i - 1))]
    IN  <<header>>
            \o write_offset(nkeys, offset_size)
            \o append_offset_array(starts, <<total_dict_size>>, offset_size)
            \o Flatten(md.field_names)

\* finish that sizes the offsets by the number of names alone.
C24_Mutant_MetadataFinish(md) ==
    LET nkeys == num_field_names(md)
        total_dict_size == metadata_size(md)
        offset_size == int_size(nkeys)
        header == 1 + (IF md.is_sorted THEN 1 ELSE 0) * 16 + (offset_size - 1) * 64
        starts == [i \in 1..nkeys |-> SumLen(SubSeq(md.field_names, 1, i - 1))]
    IN  md.metadata_buffer
            \o <<header>>
            \o write_offset(nkeys, offset_size)
            \o append_offset_array(starts, <<total_dict_size>>, offset_size)
            \o Flatten(md.field_names)

\* MetadataBuilder::finish: the blob is written after whatever the buffer holds.
MetadataFinish(md) ==
    LET nkeys == num_field_names(md)
        total_dict_size == metadata_size(md)
        max_offset == Max(total_dict_size, nkeys)
        offset_size == int_size(max_offset)
        header == 1 + (IF md.is_sorted THEN 1 ELSE 0) * 16 + (offset_size - 1) * 64
        starts == [i \in 1..nkeys |-> SumLen(SubSeq(md.field_names, 1, i - 1))]
    IN  md.metadata_buffer
            \o <<header>>
            \o write_offset(nkeys, offset_size)
            \o append_offset_array(starts, <<total_dict_size>>, offset_size)
            \o Flatten(md.field_names)

\* ------------------------------------------------------------ builders
\* One builder of the tree.  kind is "variant", "list" or "object"; offsets
\* is the ListBuilder's Vec, fields the ObjectBuilder's IndexMap as
\* <<field_id, offset>> pairs in map order, field_name the key held by the
\* builder's ParentState::Object.  The remaining fields are history:
\* at_spawn is the parent as it was when this builder was created; writes
\* lists what was added to the builder, in order, as [key, how, value, bytes]
\* with how "append", "insert" or "child" (a finished child, which has no
\* value); upserted holds the
\* <<name, id>> of the upserts made for this builder and below it;
\* overridden tells whether with_validate_unique_fields was called on this
\* builder or on one it inherited its flag from.
NewBuilder(kind, validate_unique_fields, key, parent, overridden) ==
    [kind |-> kind,
     buffer |-> <<>>,
     offsets |-> <<>>,
     fields |-> <<>>,
     validate_unique_fields |-> validate_unique_fields,
     duplicate_fields |-> {},
     field_name |-> key,
     at_spawn |-> parent,
     writes |-> <<>>,
     upserted |-> {},
     overridden |-> overridden]

\* What a child can change in its parent.
ParentSlots(b) == [buffer |-> b.buffer, offsets |-> b.offsets, fields |-> b.fields]
NoParent == [buffer |-> <<>>, offsets |-> <<>>, fields |-> <<>>]

HasField(fields, id) == \E i \in 1..Len(fields) : fields[i][1] = id

\* IndexMap::insert as a push: a present key gets a second entry.
C32_Mutant_IndexMapInsert(fields, id, offset) == Append(fields, <<id, offset>>)

\* IndexMap::insert as an insert that keeps the value of a present key.
C8_Mutant_IndexMapInsert(fields, id, offset) ==
    IF HasField(fields, id) THEN fields ELSE Append(fields, <<id, offset>>)

\* IndexMap::insert: a present key keeps its place and gets the new value.
IndexMapInsert(fields, id, offset) ==
    IF HasField(fields, id)
    THEN [i \in 1..Len(fields) |-> IF fields[i][1] = id THEN <<id, offset>> ELSE fields[i]]
    ELSE Append(fields, <<id, offset>>)

\* ParentState::finish that records the child in a list parent twice.
C33_Mutant_ParentStateFinish(parent, md, key, starting_offset) ==
    LET bytes == SubSeq(parent.buffer, starting_offset + 1, Len(parent.buffer))
        logged == [parent EXCEPT
                     !.writes = Append(@, [key |-> key, how |-> "child", value |-> <<"child">>,
                                           bytes |-> bytes])]
    IN  CASE parent.kind = "variant" -> [builder |-> logged, md |-> md]
          [] parent.kind = "list" ->
                [builder |-> [logged EXCEPT
                                !.offsets = Append(Append(@, starting_offset), starting_offset)],
                 md |-> md]
          [] parent.kind = "object" ->
                LET u == upsert_field_name(md, key)
                IN  [builder |-> [logged EXCEPT
                                    !.fields = IndexMapInsert(@, u.id, starting_offset),
                                    !.upserted = @ \cup {<<key, u.id>>}],
                     md |-> u.md]

\* ParentState::finish that adds a field for the key whether or not the
\* parent object has one.
C28_Mutant_ParentStateFinish(parent, md, key, starting_offset) ==
    LET bytes == SubSeq(parent.buffer, starting_offset + 1, Len(parent.buffer))
        logged == [parent EXCEPT
                     !.writes = Append(@, [key |-> key, how |-> "child", value |-> <<"child">>,
                                           bytes |-> bytes])]
    IN  CASE parent.kind = "variant" -> [builder |-> logged, md |-> md]
          [] parent.kind = "list" ->
                [builder |-> [logged EXCEPT !.offsets = Append(@, starting_offset)],
                 md |-> md]
          [] parent.kind = "object" ->
                LET u == upsert_field_name(md, key)
                IN  [builder |-> [logged EXCEPT
                                    !.fields = Append(@, <<u.id, starting_offset>>),
                                    !.upserted = @ \cup {<<key, u.id>>}],
                     md |-> u.md]

\* ParentState::finish on the parent builder: returns the parent and the
\* metadata builder after it.
ParentStateFinish(parent, md, key, starting_offset) ==
    LET bytes == SubSeq(parent.buffer, starting_offset + 1, Len(parent.buffer))
        logged == [parent EXCEPT
                     !.writes = Append(@, [key |-> key, how |-> "child", value |-> <<"child">>,
                                           bytes |-> bytes])]
    IN  CASE parent.kind = "variant" -> [builder |-> logged, md |-> md]
          [] parent.kind = "list" ->
                [builder |-> [logged EXCEPT !.offsets = Append(@, starting_offset)],
                 md |-> md]
          [] parent.kind = "object" ->
                LET u == upsert_field_name(md, key)
                IN  [builder |-> [logged EXCEPT
                                    !.fields = IndexMapInsert(@, u.id, starting_offset),
                                    !.upserted = @ \cup {<<key, u.id>>}],
                     md |-> u.md]

\* parent_state as in ValueBuffer::new_object, which passes false.
C9_Mutant_ParentStateValidate(parent) == FALSE

\* The flag a child gets from VariantBuilder / ListBuilder / ObjectBuilder
\* ::parent_state.
ParentStateValidate(parent) == parent.validate_unique_fields

\* finish that leaves out the last element of the list.
C10_Mutant_ListFinishBytes(list) ==
    LET num_elements == Max(Len(list.offsets), 1) - 1
        offsets == SubSeq(list.offsets, 1, num_elements)
        data_size == IF list.offsets = <<>> THEN Len(list.buffer)
                     ELSE list.offsets[Len(list.offsets)]
        is_large == num_elements > U8_MAX
        offset_size == int_size(data_size)
    IN  append_header(array_header(is_large, offset_size), is_large, num_elements)
            \o append_offset_array(offsets, <<data_size>>, offset_size)
            \o SubSeq(list.buffer, 1, data_size)

\* finish that leaves out the offset after the last element.
C25_Mutant_ListFinishBytes(list) ==
    LET data_size == Len(list.buffer)
        num_elements == Len(list.offsets)
        is_large == num_elements > U8_MAX
        offset_size == int_size(data_size)
    IN  append_header(array_header(is_large, offset_size), is_large, num_elements)
            \o append_offset_array(list.offsets, <<>>, offset_size)
            \o list.buffer

\* ListBuilder::finish: the bytes appended to the parent's buffer.
ListFinishBytes(list) ==
    LET data_size == Len(list.buffer)
        num_elements == Len(list.offsets)
        is_large == num_elements > U8_MAX
        offset_size == int_size(data_size)
    IN  append_header(array_header(is_large, offset_size), is_large, num_elements)
            \o append_offset_array(list.offsets, <<data_size>>, offset_size)
            \o list.buffer

\* fields.sort_by on the start offset of each field.
C36_Mutant_SortFieldsByName(fields, md) ==
    LET pos(i) == 1 + Cardinality({j \in 1..Len(fields) :
                    fields[j][2] < fields[i][2] \/ (fields[j][2] = fields[i][2] /\ j < i)})
    IN  [p \in 1..Len(fields) |-> fields[CHOOSE i \in 1..Len(fields) : pos(i) = p]]

\* The sort left out: the fields stay in map order.
C3_Mutant_SortFieldsByName(fields, md) == fields

\* The place of each of the names nm in their stable sort.
SortedPlaces(nm) ==
    [i \in 1..Len(nm) |-> 1 + Cardinality({j \in 1..Len(nm) :
                        StrLess(nm[j], nm[i]) \/ (nm[j] = nm[i] /\ j < i)})]

\* The fields, each at its place.
PlacedAt(fields, pos) ==
    [p \in 1..Len(fields) |-> fields[CHOOSE i \in 1..Len(fields) : pos[i] = p]]

\* fields.sort_by(name of the id): a stable sort. (The names and their
\* places are bound as values, so that each is computed once.)
SortFieldsByName(fields, md) ==
    CHOOSE sorted \in
        {PlacedAt(fields, pos) :
            pos \in {SortedPlaces(nm) :
                nm \in {[i \in 1..Len(fields) |-> field_name(md, fields[i][1])]}}} : TRUE

MaxFieldId(fields) ==
    IF fields = <<>> THEN 0
    ELSE CHOOSE m \in {fields[i][1] : i \in 1..Len(fields)} :
            \A i \in 1..Len(fields) : fields[i][1] <= m

RECURSIVE JoinNames(_)
\* names.join(", ")
JoinNames(names) ==
    IF names = <<>> THEN <<>>
    ELSE IF Len(names) = 1 THEN names[1]
    ELSE names[1] \o <<44, 32>> \o JoinNames(Tail(names))

\* names.sort_unstable() over the names of the duplicate ids, which are distinct.
SortedDuplicateNames(duplicate_fields, md) ==
    LET ns == {field_name(md, id) : id \in duplicate_fields}
        pos(x) == 1 + Cardinality({y \in ns : StrLess(y, x)})
    IN  [p \in 1..Cardinality(ns) |-> CHOOSE x \in ns : pos(x) = p]

\* "Duplicate field keys detected: [" and "]"
DuplicateMessage(names) ==
    <<68, 117, 112, 108, 105, 99, 97, 116, 101, 32, 102, 105, 101, 108, 100, 32, 107, 101, 121, 115, 32, 100, 101, 116, 101, 99, 116, 101, 100, 58, 32, 91>>
        \o JoinNames(names) \o <<93>>

Ok == [ok |-> TRUE, kind |-> "", message |-> <<>>]
InvalidArgumentError(message) ==
    [ok |-> FALSE, kind |-> "InvalidArgumentError", message |-> message]

\* Display of ArrowError::InvalidArgumentError: "Invalid argument error: " ++ message
ErrorToString(e) ==
    <<73, 110, 118, 97, 108, 105, 100, 32, 97, 114, 103, 117, 109, 101, 110, 116, 32, 101, 114, 114, 111, 114, 58, 32>>
        \o e.message

\* duplicate_fields.iter(): a HashSet yields its elements in an order that
\* is not fixed; every enumeration is possible.
HashSetIter(S) ==
    {q \in [1..Cardinality(S) -> S] : \A i, j \in 1..Cardinality(S) : i # j => q[i] # q[j]}

\* names.sort_unstable() that leaves the names as they came.
C35_Mutant_sort_unstable(names) == names

\* names.sort_unstable(): the names are distinct, so is the outcome.
sort_unstable(names) ==
    CHOOSE sorted \in
        {PlacedAt(names, pos) : pos \in {SortedPlaces(names)}} : TRUE

\* The Err of ObjectBuilder::finish when duplicate_fields.iter() yields the
\* ids in the order of `iter`.
DuplicateFieldsError(iter, md) ==
    InvalidArgumentError(DuplicateMessage(
        sort_unstable([i \in 1..Len(iter) |-> field_name(md, iter[i])])))

\* The check at the head of ObjectBuilder::finish.
ObjectFinishResult(obj, md) ==
    IF obj.validate_unique_fields /\ obj.duplicate_fields # {}
    THEN InvalidArgumentError(DuplicateMessage(SortedDuplicateNames(obj.duplicate_fields, md)))
    ELSE Ok

\* finish that sorts the field ids and writes the offsets in map order.
C26_Mutant_ObjectFinishBytes(obj, md) ==
    LET data_size == Len(obj.buffer)
        num_fields == Len(obj.fields)
        is_large == num_fields > U8_MAX
        sorted == SortFieldsByName(obj.fields, md)
        id_size == int_size(MaxFieldId(sorted))
        offset_size == int_size(data_size)
        ids == [i \in 1..num_fields |-> sorted[i][1]]
        offsets == [i \in 1..num_fields |-> obj.fields[i][2]]
    IN  append_header(object_header(is_large, id_size, offset_size), is_large, num_fields)
            \o append_offset_array(ids, <<>>, id_size)
            \o append_offset_array(offsets, <<data_size>>, offset_size)
            \o obj.buffer

\* ObjectBuilder::finish past the check: the bytes appended to the parent's buffer.
ObjectFinishBytes(obj, md) ==
    LET data_size == Len(obj.buffer)
        num_fields == Len(obj.fields)
        is_large == num_fields > U8_MAX
        sorted == SortFieldsByName(obj.fields, md)
        id_size == int_size(MaxFieldId(sorted))
        offset_size == int_size(data_size)
        ids == [i \in 1..num_fields |-> sorted[i][1]]
        offsets == [i \in 1..num_fields |-> sorted[i][2]]
    IN  append_header(object_header(is_large, id_size, offset_size), is_large, num_fields)
            \o append_offset_array(ids, <<>>, id_size)
            \o append_offset_array(offsets, <<data_size>>, offset_size)
            \o obj.buffer

\* ------------------------------------------------------------ appending values
RECURSIVE try_append_variant(_, _, _)
RECURSIVE InsertAll(_, _, _)
RECURSIVE AppendAll(_, _, _)

\* The object builder once try_insert has written the value: r is what
\* try_append_variant returned for the builder's buffer.
Inserted(obj, key, value, id, record_duplicates, r) ==
    LET field_start == Len(obj.buffer)
        dup == HasField(obj.fields, id) /\ obj.validate_unique_fields /\ record_duplicates
    IN  [builder |-> [obj EXCEPT
                        !.fields = IndexMapInsert(@, id, field_start),
                        !.duplicate_fields = IF dup THEN @ \cup {id} ELSE @,
                        !.buffer = r.buffer,
                        !.writes = Append(@, [key |-> key, how |-> "insert", value |-> value,
                                              bytes |-> SubSeq(r.buffer, field_start + 1, Len(r.buffer))]),
                        !.upserted = @ \cup {<<key, id>>}],
         md |-> r.md,
         res |-> r.res]

\* try_insert that records no duplicate.
C7_Mutant_try_insert(obj, md, key, value) ==
    LET u == upsert_field_name(md, key)
    IN  Inserted(obj, key, value, u.id, FALSE, try_append_variant(obj.buffer, u.md, value))

\* ObjectBuilder::try_insert: returns the builder, the metadata builder and
\* the Result.
try_insert(obj, md, key, value) ==
    LET u == upsert_field_name(md, key)
    IN  Inserted(obj, key, value, u.id, TRUE, try_append_variant(obj.buffer, u.md, value))

\* The list builder once try_append_value has pushed `offset` and written the
\* value: r is what try_append_variant returned for the builder's buffer.
Appended(list, value, offset, r) ==
    [builder |-> [list EXCEPT
                    !.offsets = Append(@, offset),
                    !.buffer = r.buffer,
                    !.writes = Append(@, [key |-> <<>>, how |-> "append", value |-> value,
                                          bytes |-> SubSeq(r.buffer, Len(list.buffer) + 1, Len(r.buffer))])],
     md |-> r.md,
     res |-> r.res]

\* try_append_value that pushes the offset after the value is written.
C4_Mutant_try_append_value(list, md, value) ==
    Appended(list, value, Len(try_append_variant(list.buffer, md, value).buffer),
             try_append_variant(list.buffer, md, value))

\* try_append_value that pushes the number of elements before the value.
C31_Mutant_try_append_value(list, md, value) ==
    Appended(list, value, Len(list.offsets), try_append_variant(list.buffer, md, value))

\* ListBuilder::try_append_value: the offset is pushed before the value is written.
try_append_value(list, md, value) ==
    Appended(list, value, Len(list.buffer), try_append_variant(list.buffer, md, value))

\* One turn of the loop over object_fields in try_append_variant, r being
\* what the insert before returned; insert unwraps.
InsertNext(r, pairs) ==
    IF r.res.ok THEN InsertAll(r.builder, r.md, pairs) ELSE r

\* The loop over object_fields in try_append_variant.
InsertAll(obj, md, pairs) ==
    IF pairs = <<>> THEN [builder |-> obj, md |-> md, res |-> Ok]
    ELSE InsertNext(try_insert(obj, md, Head(pairs)[1], Head(pairs)[2]), Tail(pairs))

\* One turn of the loop over list.iter() in try_append_variant, r being what
\* the append_value before returned; append_value unwraps.
AppendNext(r, elems) ==
    IF r.res.ok THEN AppendAll(r.builder, r.md, elems) ELSE r

\* The loop over list.iter() in try_append_variant.
AppendAll(list, md, elems) ==
    IF elems = <<>> THEN [builder |-> list, md |-> md, res |-> Ok]
    ELSE AppendNext(try_append_value(list, md, Head(elems)), Tail(elems))

\* sort_by_key(|(name, _)| metadata_field_names.get(name)): a stable sort on
\* Option<index>, where None is smaller than every Some.
SortByDictionaryIndex(pairs, metadata_field_names) ==
    LET n == Len(pairs)
        key(i) == IF pairs[i][1] \in Range(metadata_field_names)
                  THEN IndexOfName(metadata_field_names, pairs[i][1]) + 1
                  ELSE 0
        pos(i) == 1 + Cardinality({j \in 1..n :
                        key(j) < key(i) \/ (key(j) = key(i) /\ j < i)})
    IN  [p \in 1..n |-> pairs[CHOOSE i \in 1..n : pos(i) = p]]

\* ValueBuffer::new_object / new_list: a builder on ParentState::Variant whose
\* validation is off.
ValueBufferNewBuilder(kind) == NewBuilder(kind, FALSE, <<>>, NoParent, FALSE)

\* object_builder.finish()? in try_append_variant, r being what the inserts
\* returned.
AppendedObject(buffer, r) ==
    LET fin == ObjectFinishResult(r.builder, r.md)
    IN  IF ~r.res.ok THEN [buffer |-> buffer, md |-> r.md, res |-> r.res]
        ELSE IF ~fin.ok THEN [buffer |-> buffer, md |-> r.md, res |-> fin]
        ELSE [buffer |-> buffer \o ObjectFinishBytes(r.builder, r.md),
              md |-> r.md, res |-> Ok]

\* list_builder.finish() in try_append_variant, r being what the appends
\* returned.
AppendedList(buffer, r) ==
    IF ~r.res.ok THEN [buffer |-> buffer, md |-> r.md, res |-> r.res]
    ELSE [buffer |-> buffer \o ListFinishBytes(r.builder), md |-> r.md, res |-> Ok]

\* ValueBuffer::try_append_variant: returns the buffer, the metadata builder
\* and the Result.
try_append_variant(buffer, md, variant) ==
    CASE variant[1] = "null" ->
            [buffer |-> buffer \o append_null, md |-> md, res |-> Ok]
      [] variant[1] = "bool" ->
            [buffer |-> buffer \o append_bool(variant[2]), md |-> md, res |-> Ok]
      [] variant[1] = "int8" ->
            [buffer |-> buffer \o append_int8(variant[2]), md |-> md, res |-> Ok]
      [] variant[1] = "int16" ->
            [buffer |-> buffer \o append_int16(variant[2]), md |-> md, res |-> Ok]
      [] variant[1] = "int32" ->
            [buffer |-> buffer \o append_int32(variant[2]), md |-> md, res |-> Ok]
      [] variant[1] = "string" ->
            [buffer |-> buffer \o append_string(variant[2]), md |-> md, res |-> Ok]
      [] variant[1] = "short_string" ->
            [buffer |-> buffer \o append_short_string(variant[2]), md |-> md, res |-> Ok]
      [] variant[1] = "object" ->
            AppendedObject(buffer,
                InsertAll(ValueBufferNewBuilder("object"), md,
                          SortByDictionaryIndex(variant[2], md.field_names)))
      [] variant[1] = "list" ->
            AppendedList(buffer, AppendAll(ValueBufferNewBuilder("list"), md, variant[2]))

\* ------------------------------------------------------------ operations
\* The operations as functions of the builders outstanding (the
\* VariantBuilder first, the builder that can be used last) and the
\* MetadataBuilder they share.
TopOf(builders) == builders[Len(builders)]

\* A write that reaches the parent of the builder in use, as it would
\* without the exclusive borrow.
C15_Mutant_ReplaceTopOf(builders, b) ==
    [builders EXCEPT ![Max(Len(builders) - 1, 1)] = b]

\* The builder in use is the only one an operation writes: its ancestors are
\* borrowed by the ParentState chain.
ReplaceTopOf(builders, b) == [builders EXCEPT ![Len(builders)] = b]

\* with_validate_unique_fields of the three builders
with_validate_unique_fields(builders, flag) ==
    ReplaceTopOf(builders, [TopOf(builders) EXCEPT
        !.validate_unique_fields = flag,
        !.overridden = @ \/ Len(builders) > 1])

\* try_append_value that leaves the dictionary marked as sorted.
C34_Mutant_variant_try_append_value(root, md, value) ==
    LET a == try_append_variant(root.buffer, md, value)
    IN  [builder |-> [root EXCEPT
                        !.buffer = a.buffer,
                        !.writes = Append(@, [key |-> <<>>, how |-> "append", value |-> value,
                                              bytes |-> SubSeq(a.buffer, Len(root.buffer) + 1, Len(a.buffer))])],
         md |-> [a.md EXCEPT !.is_sorted = TRUE], res |-> a.res]

\* VariantBuilder::try_append_value: returns the builder, the metadata
\* builder and the Result.
variant_try_append_value(root, md, value) ==
    LET a == try_append_variant(root.buffer, md, value)
    IN  [builder |-> [root EXCEPT
                        !.buffer = a.buffer,
                        !.writes = Append(@, [key |-> <<>>, how |-> "append", value |-> value,
                                              bytes |-> SubSeq(a.buffer, Len(root.buffer) + 1, Len(a.buffer))])],
         md |-> a.md, res |-> a.res]

\* try_append_value on the builder in use, a VariantBuilder or a ListBuilder.
AppendValueTo(builders, md, value) ==
    LET r == IF TopOf(builders).kind = "list"
             THEN try_append_value(TopOf(builders), md, value)
             ELSE variant_try_append_value(TopOf(builders), md, value)
    IN  [stack |-> ReplaceTopOf(builders, r.builder), md |-> r.md, res |-> r.res]

\* try_insert on the builder in use, an ObjectBuilder.
InsertInto(builders, md, key, value) ==
    LET r == try_insert(TopOf(builders), md, key, value)
    IN  [stack |-> ReplaceTopOf(builders, r.builder), md |-> r.md, res |-> r.res]

\* new_list / new_object of the three builders: the child holds a
\* ParentState on the builder in use and becomes the builder in use.
NewChildOf(builders, kind, key) ==
    Append(builders,
        NewBuilder(kind, ParentStateValidate(TopOf(builders)), key,
                   ParentSlots(TopOf(builders)), TopOf(builders).overridden))

\* The stack once the last builder is gone: the parent is usable again
\* (history: it takes over the record of the child's upserts).
Leave(builders) ==
    [SubSeq(builders, 1, Len(builders) - 1) EXCEPT
        ![Len(builders) - 1].upserted = @ \cup builders[Len(builders)].upserted]

\* A child that writes `bytes` over what the parent's buffer holds.
C22_Mutant_SpliceInto(builders, md, bytes) ==
    LET parent == builders[Len(builders) - 1]
        written == [parent EXCEPT !.buffer = bytes]
        f == ParentStateFinish(written, md, TopOf(builders).field_name, 0)
    IN  [stack |-> Leave([builders EXCEPT ![Len(builders) - 1] = f.builder]),
         md |-> f.md, res |-> Ok]

\* The builders after the last one appended `bytes` to its parent and called
\* ParentState::finish.
SpliceInto(builders, md, bytes) ==
    LET parent == builders[Len(builders) - 1]
        starting_offset == Len(parent.buffer)
        written == [parent EXCEPT !.buffer = @ \o bytes]
        f == ParentStateFinish(written, md, TopOf(builders).field_name, starting_offset)
    IN  [stack |-> Leave([builders EXCEPT ![Len(builders) - 1] = f.builder]),
         md |-> f.md, res |-> Ok]

\* ListBuilder::finish
list_finish(builders, md) == SpliceInto(builders, md, ListFinishBytes(TopOf(builders)))

\* ObjectBuilder::finish: on Err the builder is consumed and nothing else changes.
object_finish(builders, md) ==
    LET res == ObjectFinishResult(TopOf(builders), md)
    IN  IF res.ok
        THEN SpliceInto(builders, md, ObjectFinishBytes(TopOf(builders), md))
        ELSE [stack |-> Leave(builders), md |-> md, res |-> res]

\* VariantBuilder::finish: (metadata, value)
variant_finish(root, md) ==
    [done |-> TRUE, metadata |-> MetadataFinish(md), value |-> root.buffer]

\* new_with_buffers that builds the MetadataBuilder with default(), not from
\* the buffer.
C13_Mutant_new_with_buffers(metadata_buffer, value_buffer) ==
    [stack |-> <<[NewBuilder("variant", FALSE, <<>>, NoParent, FALSE)
                    EXCEPT !.buffer = value_buffer]>>,
     md |-> NewMetadataBuilder(<<>>)]

\* VariantBuilder::new_with_buffers(metadata_buffer, value_buffer)
new_with_buffers(metadata_buffer, value_buffer) ==
    [stack |-> <<[NewBuilder("variant", FALSE, <<>>, NoParent, FALSE)
                    EXCEPT !.buffer = value_buffer]>>,
     md |-> NewMetadataBuilder(metadata_buffer)]

\* VariantBuilder::new()
new == new_with_buffers(<<>>, <<>>)

\* ------------------------------------------------------------ state
VARIABLES
    stack,              \* the outstanding builders, the VariantBuilder first
    metadata_builder,   \* the MetadataBuilder every builder of the tree shares
    output,             \* what VariantBuilder::finish returned
    decoded,            \* what reading the output back gave
    last,               \* the last operation, the state it ran in, its Result
    abandoned,          \* history: the <<name, id>> upserted below dropped builders
    nops,               \* operations so far
    given,              \* what the VariantBuilder was constructed from
    twin                \* <<>>, or a VariantBuilder::new() given the same operations

vars == <<stack, metadata_builder, output, decoded, last, abandoned, nops, given, twin>>

Top == TopOf(stack)
Root == stack[1]
NoOutput == [done |-> FALSE, metadata |-> <<>>, value |-> <<>>]
NothingGiven == [metadata_buffer |-> <<>>, value_buffer |-> <<>>, metadata |-> <<>>]

Op(name, key, value, res) ==
    [op |-> name, key |-> key, value |-> value, res |-> res,
     stack |-> stack, md |-> metadata_builder]

CanStep == ~output.done /\ nops < MaxOps

ReplaceTop(b) == ReplaceTopOf(stack, b)

\* The builders and the metadata builder of the twin, when there is one.
TwinStack == twin[1].stack
TwinMd == twin[1].md

\* The twin after the same operation, whose result on TwinStack and TwinMd
\* is r = [stack, md].
OnTwin(r) ==
    twin' = IF twin = <<>> THEN twin
            ELSE <<[twin[1] EXCEPT !.stack = r.stack, !.md = r.md]>>

\* VariantBuilder::new().with_validate_unique_fields(flag)
Init ==
    /\ \E flag \in BOOLEAN :
         stack = <<NewBuilder("variant", flag, <<>>, NoParent, FALSE)>>
    /\ metadata_builder = NewMetadataBuilder(<<>>)
    /\ output = NoOutput
    /\ decoded = <<>>
    /\ abandoned = {}
    /\ last = [op |-> "new", key |-> <<>>, value |-> VNull, res |-> Ok,
               stack |-> <<>>, md |-> NewMetadataBuilder(<<>>)]
    /\ nops = 0
    /\ given = NothingGiven
    /\ twin = <<>>

\* VariantBuilder::add_field_name
AddFieldName(name) ==
    /\ CanStep /\ Len(stack) = 1
    /\ metadata_builder' = upsert_field_name(metadata_builder, name).md
    /\ last' = Op("add_field_name", name, VNull, Ok)
    /\ nops' = nops + 1
    /\ OnTwin([stack |-> TwinStack, md |-> upsert_field_name(TwinMd, name).md])
    /\ UNCHANGED <<stack, output, decoded, abandoned, given>>

\* VariantBuilder::new().with_field_names(names): called on the builder new()
\* returned, before anything else. It counts as one operation for each name,
\* as the calls of add_field_name it stands for would.
WithFieldNames(names) ==
    /\ CanStep /\ Len(stack) = 1
    /\ nops = 0
    /\ metadata_builder' = extend(metadata_builder, names)
    /\ last' = Op("with_field_names", <<>>, VNull, Ok)
    /\ nops' = nops + Len(names)
    /\ OnTwin([stack |-> TwinStack, md |-> extend(TwinMd, names)])
    /\ UNCHANGED <<stack, output, decoded, abandoned, given>>

\* with_validate_unique_fields of the three builders
WithValidateUniqueFields(flag) ==
    /\ CanStep /\ flag # Top.validate_unique_fields
    /\ stack' = with_validate_unique_fields(stack, flag)
    /\ last' = Op("with_validate_unique_fields", <<>>, VNull, Ok)
    /\ nops' = nops + 1
    /\ OnTwin([stack |-> with_validate_unique_fields(TwinStack, flag), md |-> TwinMd])
    /\ UNCHANGED <<metadata_builder, output, decoded, abandoned, given>>

\* VariantBuilder::try_append_value and ListBuilder::try_append_value
AppendValue(value) ==
    /\ CanStep /\ Top.kind \in {"variant", "list"}
    /\ LET r == AppendValueTo(stack, metadata_builder, value)
       IN  /\ stack' = r.stack
           /\ metadata_builder' = r.md
           /\ last' = Op("append_value", <<>>, value, r.res)
    /\ nops' = nops + 1
    /\ OnTwin(AppendValueTo(TwinStack, TwinMd, value))
    /\ UNCHANGED <<output, decoded, abandoned, given>>

\* ObjectBuilder::try_insert
Insert(key, value) ==
    /\ CanStep /\ Top.kind = "object"
    /\ LET r == InsertInto(stack, metadata_builder, key, value)
       IN  /\ stack' = r.stack
           /\ metadata_builder' = r.md
           /\ last' = Op("insert", key, value, r.res)
    /\ nops' = nops + 1
    /\ OnTwin(InsertInto(TwinStack, TwinMd, key, value))
    /\ UNCHANGED <<output, decoded, abandoned, given>>

\* The keys a parent can give a child: a name for an object, none otherwise.
ChildKeys == IF Top.kind = "object" THEN {NameA, NameB} ELSE {<<>>}

\* new_list / new_object that upserts the key and reserves the field when the
\* child is created.
C18_Mutant_NewChild(kind, key) ==
    /\ CanStep /\ Len(stack) <= MaxDepth
    /\ key \in ChildKeys
    /\ LET u == upsert_field_name(metadata_builder, key)
           parent == IF Top.kind = "object"
                     THEN [Top EXCEPT !.fields = IndexMapInsert(@, u.id, Len(Top.buffer))]
                     ELSE Top
       IN  /\ stack' = NewChildOf(ReplaceTop(parent), kind, key)
           /\ metadata_builder' = IF Top.kind = "object" THEN u.md ELSE metadata_builder
    /\ last' = Op("new_" \o kind, key, VNull, Ok)
    /\ nops' = nops + 1
    /\ UNCHANGED <<output, decoded, abandoned, given, twin>>

\* new_list / new_object that upserts the key when the child is created.
C29_Mutant_NewChild(kind, key) ==
    /\ CanStep /\ Len(stack) <= MaxDepth
    /\ key \in ChildKeys
    /\ stack' = NewChildOf(stack, kind, key)
    /\ metadata_builder' = IF Top.kind = "object"
                           THEN upsert_field_name(metadata_builder, key).md
                           ELSE metadata_builder
    /\ last' = Op("new_" \o kind, key, VNull, Ok)
    /\ nops' = nops + 1
    /\ UNCHANGED <<output, decoded, abandoned, given, twin>>

\* new_list / new_object of the three builders
NewChild(kind, key) ==
    /\ CanStep /\ Len(stack) <= MaxDepth
    /\ key \in ChildKeys
    /\ stack' = NewChildOf(stack, kind, key)
    /\ last' = Op("new_" \o kind, key, VNull, Ok)
    /\ nops' = nops + 1
    /\ OnTwin([stack |-> NewChildOf(TwinStack, kind, key), md |-> TwinMd])
    /\ UNCHANGED <<metadata_builder, output, decoded, abandoned, given>>

NewList == \E key \in Names \cup {<<>>} : NewChild("list", key)
NewObject == \E key \in Names \cup {<<>>} : NewChild("object", key)

\* The stack after the last builder appended `bytes` to its parent and
\* called ParentState::finish.
SpliceIntoParent(bytes) == SpliceInto(stack, metadata_builder, bytes)

\* ListBuilder::finish
FinishList ==
    /\ CanStep /\ Len(stack) > 1 /\ Top.kind = "list"
    /\ LET s == list_finish(stack, metadata_builder)
       IN  /\ stack' = s.stack
           /\ metadata_builder' = s.md
    /\ last' = Op("finish_list", Top.field_name, VNull, Ok)
    /\ nops' = nops + 1
    /\ OnTwin(list_finish(TwinStack, TwinMd))
    /\ UNCHANGED <<output, decoded, abandoned, given>>

\* finish that writes the object to the parent before it looks for duplicates.
C2_Mutant_FinishObject ==
    /\ CanStep /\ Len(stack) > 1 /\ Top.kind = "object"
    /\ LET res == ObjectFinishResult(Top, metadata_builder)
           s == SpliceIntoParent(ObjectFinishBytes(Top, metadata_builder))
       IN  /\ stack' = s.stack
           /\ metadata_builder' = s.md
           /\ last' = Op("finish_object", Top.field_name, VNull, res)
    /\ nops' = nops + 1
    /\ UNCHANGED <<output, decoded, abandoned, given, twin>>

\* ObjectBuilder::finish
FinishObject ==
    /\ CanStep /\ Len(stack) > 1 /\ Top.kind = "object"
    /\ LET s == object_finish(stack, metadata_builder)
       IN  /\ stack' = s.stack
           /\ metadata_builder' = s.md
           /\ last' = Op("finish_object", Top.field_name, VNull, s.res)
    /\ nops' = nops + 1
    /\ OnTwin(object_finish(TwinStack, TwinMd))
    /\ UNCHANGED <<output, decoded, abandoned, given>>

\* A builder that wrote into its parent's buffer and does not rewind it when
\* dropped.
C1_Mutant_DropBuilder ==
    /\ CanStep /\ Len(stack) > 1
    /\ stack' = Leave([stack EXCEPT ![Len(stack) - 1].buffer = @ \o Top.buffer])
    /\ abandoned' = abandoned \cup Top.upserted
    /\ last' = Op("drop", Top.field_name, VNull, Ok)
    /\ nops' = nops + 1
    /\ UNCHANGED <<metadata_builder, output, decoded, given, twin>>

\* A drop that takes the names upserted below the builder out of the dictionary.
C6_Mutant_DropBuilder ==
    /\ CanStep /\ Len(stack) > 1
    /\ stack' = Leave(stack)
    /\ abandoned' = abandoned \cup Top.upserted
    /\ metadata_builder' = [metadata_builder EXCEPT
            !.field_names = SelectSeq(@, LAMBDA x : \A e \in Top.upserted : e[1] # x)]
    /\ last' = Op("drop", Top.field_name, VNull, Ok)
    /\ nops' = nops + 1
    /\ UNCHANGED <<output, decoded, given, twin>>

\* Drop for ListBuilder / ObjectBuilder: the builder goes away unfinished.
DropBuilder ==
    /\ CanStep /\ Len(stack) > 1
    /\ stack' = Leave(stack)
    /\ abandoned' = abandoned \cup Top.upserted
    /\ last' = Op("drop", Top.field_name, VNull, Ok)
    /\ nops' = nops + 1
    /\ OnTwin([stack |-> Leave(TwinStack), md |-> TwinMd])
    /\ UNCHANGED <<metadata_builder, output, decoded, given>>

\* VariantBuilder::finish
Finish ==
    /\ ~output.done /\ Len(stack) = 1
    /\ output' = variant_finish(Root, metadata_builder)
    /\ last' = Op("finish", <<>>, VNull, Ok)
    /\ twin' = IF twin = <<>> THEN twin
               ELSE <<[twin[1] EXCEPT !.output = variant_finish(twin[1].stack[1], twin[1].md)]>>
    /\ UNCHANGED <<stack, metadata_builder, decoded, abandoned, nops, given>>

Next ==
    \/ \E name \in Names : AddFieldName(name)
    \/ \E names \in FieldNameLists : WithFieldNames(names)
    \/ \E flag \in BOOLEAN : WithValidateUniqueFields(flag)
    \/ \E value \in Values : AppendValue(value)
    \/ \E key \in Names, value \in Values : Insert(key, value)
    \/ NewList
    \/ NewObject
    \/ FinishList
    \/ FinishObject
    \/ DropBuilder
    \/ Finish

Spec == Init /\ [][Next]_vars

\* ------------------------------------------------------------ caller's buffers
\* The buffers handed to new_with_buffers: those an earlier builder returned
\* for Int8(42).
GivenMetadata == <<1, 0, 0>>
GivenValue == <<12, 42>>

\* VariantBuilder::new_with_buffers(GivenMetadata, GivenValue), and next to it
\* VariantBuilder::new(), which is given the same operations.
InitWithBuffers ==
    /\ stack = new_with_buffers(GivenMetadata, GivenValue).stack
    /\ metadata_builder = new_with_buffers(GivenMetadata, GivenValue).md
    /\ output = NoOutput
    /\ decoded = <<>>
    /\ abandoned = {}
    /\ last = [op |-> "new", key |-> <<>>, value |-> VNull, res |-> Ok,
               stack |-> <<>>, md |-> NewMetadataBuilder(<<>>)]
    /\ nops = 0
    /\ given = [NothingGiven EXCEPT !.metadata_buffer = GivenMetadata,
                                    !.value_buffer = GivenValue]
    /\ twin = <<[stack |-> new.stack, md |-> new.md, output |-> NoOutput]>>

SpecWithBuffers == InitWithBuffers /\ [][Next]_vars

\* ------------------------------------------------------------ reading the wire
RECURSIVE ReadLE(_, _, _)
\* The unsigned little-endian integer in the n bytes from position start.
ReadLE(bytes, start, n) ==
    IF n = 0 THEN 0 ELSE bytes[start] + 256 * ReadLE(bytes, start + 1, n - 1)

\* An encoded object: its field ids, its offsets (the last is the data size)
\* and its data region.
WireObject(bytes) ==
    LET h == bytes[1]
        large == (h \div 64) % 2 = 1
        id_size == ((h \div 16) % 4) + 1
        offset_size == ((h \div 4) % 4) + 1
        count_size == IF large THEN 4 ELSE 1
        n == ReadLE(bytes, 2, count_size)
        ids_at == 2 + count_size
        offsets_at == ids_at + n * id_size
        data_at == offsets_at + (n + 1) * offset_size
    IN  [basic_type |-> h % 4,
         ids |-> [i \in 1..n |-> ReadLE(bytes, ids_at + (i - 1) * id_size, id_size)],
         offsets |-> [i \in 1..(n + 1) |->
                        ReadLE(bytes, offsets_at + (i - 1) * offset_size, offset_size)],
         data |-> SubSeq(bytes, data_at, Len(bytes))]

\* An encoded array: its offsets (the last is the data size) and its data region.
WireArray(bytes) ==
    LET h == bytes[1]
        large == (h \div 16) % 2 = 1
        offset_size == ((h \div 4) % 4) + 1
        count_size == IF large THEN 4 ELSE 1
        n == ReadLE(bytes, 2, count_size)
        offsets_at == 2 + count_size
        data_at == offsets_at + (n + 1) * offset_size
    IN  [basic_type |-> h % 4,
         offsets |-> [i \in 1..(n + 1) |->
                        ReadLE(bytes, offsets_at + (i - 1) * offset_size, offset_size)],
         data |-> SubSeq(bytes, data_at, Len(bytes))]

\* The field names of a metadata blob, in id order.
MetadataNames(bytes) ==
    LET h == bytes[1]
        offset_size == ((h \div 64) % 4) + 1
        n == ReadLE(bytes, 2, offset_size)
        offsets_at == 2 + offset_size
        strings_at == offsets_at + (n + 1) * offset_size
        off(i) == ReadLE(bytes, offsets_at + (i - 1) * offset_size, offset_size)
    IN  [i \in 1..n |-> SubSeq(bytes, strings_at + off(i), strings_at + off(i + 1) - 1)]

RECURSIVE DecodeValue(_, _)
\* The variant encoded at the head of bytes, with the field names of the
\* metadata; what follows the value is not read.
DecodeValue(names, bytes) ==
    LET h == bytes[1]
        basic_type == h % 4
        upper == h \div 4
        rest(data, offset) == SubSeq(data, offset + 1, Len(data))
    IN  CASE basic_type = BasicPrimitive /\ upper = PrimNull -> VNull
          [] basic_type = BasicPrimitive /\ upper = PrimBooleanTrue -> VBool(TRUE)
          [] basic_type = BasicPrimitive /\ upper = PrimBooleanFalse -> VBool(FALSE)
          [] basic_type = BasicPrimitive /\ upper = PrimInt8 ->
                VInt8(IF bytes[2] >= 128 THEN bytes[2] - 256 ELSE bytes[2])
          [] basic_type = BasicShortString -> VShortString(SubSeq(bytes, 2, 1 + upper))
          [] basic_type = BasicObject ->
                LET w == WireObject(bytes)
                IN  VObject([i \in 1..Len(w.ids) |->
                        <<names[w.ids[i] + 1], DecodeValue(names, rest(w.data, w.offsets[i]))>>])
          [] basic_type = BasicArray ->
                LET w == WireArray(bytes)
                IN  VList([i \in 1..(Len(w.offsets) - 1) |->
                        DecodeValue(names, rest(w.data, w.offsets[i]))])

\* Variant::new(&metadata, &value)
DecodeVariant(metadata, value) == DecodeValue(MetadataNames(metadata), value)

\* ------------------------------------------------------------ round trip
\* Number of nodes (values and containers) of an appended variant.
RTMaxNodes == 4

RTLeaves == {VNull, VInt8(-1), VShortString(NameAB)}

\* The strictly ascending sequences of k names.
AscendingNames(k) ==
    {q \in [1..k -> Names] : \A i, j \in 1..k : i < j => StrLess(q[i], q[j])}

RECURSIVE Trees(_)
RECURSIVE Forests(_)
\* The decoded variants of n nodes: an object holds distinct names in
\* ascending order, as a valid Variant does.
Trees(n) ==
    IF n = 1 THEN RTLeaves \cup {VList(<<>>), VObject(<<>>)}
    ELSE {VList(kids) : kids \in Forests(n - 1)}
         \cup UNION {{VObject([i \in 1..Len(kids) |-> <<q[i], kids[i]>>]) :
                        q \in AscendingNames(Len(kids))} : kids \in Forests(n - 1)}

\* The sequences of variants of m nodes in all.
Forests(m) ==
    IF m = 0 THEN {<<>>}
    ELSE UNION {{<<t>> \o more : t \in Trees(k), more \in Forests(m - k)} : k \in 1..m}

RTValues == UNION {Trees(n) : n \in 1..RTMaxNodes}

\* VariantBuilder::new()
InitFresh ==
    /\ stack = <<NewBuilder("variant", FALSE, <<>>, NoParent, FALSE)>>
    /\ metadata_builder = NewMetadataBuilder(<<>>)
    /\ output = NoOutput
    /\ decoded = <<>>
    /\ abandoned = {}
    /\ last = [op |-> "new", key |-> <<>>, value |-> VNull, res |-> Ok,
               stack |-> <<>>, md |-> NewMetadataBuilder(<<>>)]
    /\ nops = 0
    /\ given = NothingGiven
    /\ twin = <<>>

\* append_value of some variant on the fresh builder
AppendOnce == Root.writes = <<>> /\ \E value \in RTValues : AppendValue(value)

\* Variant::new on what finish returned
Decode ==
    /\ output.done /\ decoded = <<>> /\ output.value # <<>>
    /\ decoded' = <<DecodeVariant(output.metadata, output.value)>>
    /\ last' = Op("decode", <<>>, VNull, Ok)
    /\ UNCHANGED <<stack, metadata_builder, output, abandoned, nops, given, twin>>

NextRoundTrip ==
    \/ AppendOnce
    \/ Finish
    \/ Decode

SpecRoundTrip == InitFresh /\ [][NextRoundTrip]_vars

\* ------------------------------------------------------------ a prepared dictionary
\* Number of nodes of a variant appended under a prepared dictionary.
MDMaxNodes == 3

\* VariantBuilder::with_metadata: the names of the metadata, in id order.
with_metadata(md, metadata) == extend(md, metadata)

\* The dictionaries of a VariantMetadata: distinct names in any order.
Dictionaries ==
    {q \in UNION {[1..k -> Names] : k \in 0..Cardinality(Names)} :
        \A i, j \in 1..Len(q) : i # j => q[i] # q[j]}

RECURSIVE NamesIn(_)
\* The field names of a variant, at any depth.
NamesIn(v) ==
    CASE v[1] = "object" ->
            {v[2][i][1] : i \in 1..Len(v[2])}
                \cup UNION {NamesIn(v[2][i][2]) : i \in 1..Len(v[2])}
      [] v[1] = "list" -> UNION {NamesIn(v[2][i]) : i \in 1..Len(v[2])}
      [] OTHER -> {}

\* The object variants of a metadata: every name they hold is in it.
ObjectsOf(metadata) ==
    {v \in UNION {Trees(n) : n \in 1..MDMaxNodes} :
        v[1] = "object" /\ NamesIn(v) \subseteq Range(metadata)}

\* VariantBuilder::new().with_metadata(m)
InitWithMetadata ==
    /\ \E m \in Dictionaries :
         /\ metadata_builder = with_metadata(new.md, m)
         /\ given = [NothingGiven EXCEPT !.metadata = m]
    /\ stack = new.stack
    /\ output = NoOutput
    /\ decoded = <<>>
    /\ abandoned = {}
    /\ last = [op |-> "new", key |-> <<>>, value |-> VNull, res |-> Ok,
               stack |-> <<>>, md |-> NewMetadataBuilder(<<>>)]
    /\ nops = 0
    /\ twin = <<>>

\* append_value of an object variant of the metadata
AppendObjectOf ==
    /\ Root.writes = <<>>
    /\ \E value \in ObjectsOf(given.metadata) : AppendValue(value)

NextWithMetadata ==
    \/ AppendObjectOf
    \/ Finish
    \/ Decode

SpecWithMetadata == InitWithMetadata /\ [][NextWithMetadata]_vars

\* ------------------------------------------------------------ wide offsets and ids
\* Short strings of 63 and of 64 bytes on the wire.
String62 == VShortString([i \in 1..62 |-> 120])
String63 == VShortString([i \in 1..63 |-> 120])

\* Lists whose data takes 255 and 256 bytes.
List255 == VList(<<String63, String63, String63, String62>>)
List256 == VList(<<String63, String63, String63, String63>>)

WideValues == {VInt8(42), List255, List256}

\* Sizes of the dictionary the builder starts with: the next name gets the
\* id 0, 255 or 256.
DictionarySizes == {0, 255, 256}

\* n distinct two-letter names, in name order.
GeneratedNames(n) == [k \in 1..n |-> <<99 + ((k - 1) \div 16), 99 + ((k - 1) % 16)>>]

\* The MetadataBuilder after with_field_names(names) on a new builder, for
\* distinct names in name order: one upsert per name, each a new entry that
\* keeps the order.
Prepared(names) ==
    [new.md EXCEPT !.field_names = names, !.upserts = names, !.is_sorted = names # <<>>]

\* VariantBuilder::new().with_field_names(n names)
InitWide ==
    /\ \E n \in DictionarySizes :
         metadata_builder = Prepared(GeneratedNames(n))
    /\ stack = new.stack
    /\ output = NoOutput
    /\ decoded = <<>>
    /\ abandoned = {}
    /\ last = [op |-> "new", key |-> <<>>, value |-> VNull, res |-> Ok,
               stack |-> <<>>, md |-> NewMetadataBuilder(<<>>)]
    /\ nops = 0
    /\ given = NothingGiven
    /\ twin = <<>>

\* Operations of a builder tree in SpecWide.
WideMaxOps == 4

WideCanStep == nops < WideMaxOps

NextWide ==
    \/ \E value \in WideValues : WideCanStep /\ AppendValue(value)
    \/ \E key \in {NameA, NameB}, value \in WideValues : WideCanStep /\ Insert(key, value)
    \/ WideCanStep /\ NewList
    \/ WideCanStep /\ NewObject
    \/ WideCanStep /\ FinishList
    \/ WideCanStep /\ FinishObject

SpecWide == InitWide /\ [][NextWide]_vars

\* ------------------------------------------------------------ appending decoded variants
\* An object that holds the same field name twice, alone and in a list, and
\* an object that does not.
DuplicateObject == VObject(<<<<NameA, VNull>>, <<NameA, VInt8(42)>>>>)
PlainObject == VObject(<<<<NameA, VNull>>, <<NameB, VInt8(42)>>>>)

\* Integers of each width the builder has an append method for here.
FixedWidthValues == {VInt8(42), VInt16(258), VInt32(-70000)}

DecodedValues ==
    FixedWidthValues \cup {PlainObject, DuplicateObject, VList(<<DuplicateObject>>)}

RECURSIVE HasDuplicateNames(_)
\* The variant holds, at some depth, an object with a field name twice.
HasDuplicateNames(v) ==
    CASE v[1] = "object" ->
            \/ \E i, j \in 1..Len(v[2]) : i # j /\ v[2][i][1] = v[2][j][1]
            \/ \E i \in 1..Len(v[2]) : HasDuplicateNames(v[2][i][2])
      [] v[1] = "list" -> \E i \in 1..Len(v[2]) : HasDuplicateNames(v[2][i])
      [] OTHER -> FALSE

\* Operations of a builder tree in SpecDecoded.
DecodedMaxOps == 3

DecodedCanStep == nops < DecodedMaxOps

NextDecoded ==
    \/ \E flag \in BOOLEAN : DecodedCanStep /\ WithValidateUniqueFields(flag)
    \/ \E value \in DecodedValues : DecodedCanStep /\ AppendValue(value)
    \/ \E key \in {NameA, NameB}, value \in DecodedValues : DecodedCanStep /\ Insert(key, value)
    \/ DecodedCanStep /\ NewList
    \/ DecodedCanStep /\ NewObject
    \/ DecodedCanStep /\ FinishList
    \/ DecodedCanStep /\ FinishObject
    \/ DecodedCanStep /\ DropBuilder
    \/ Finish

SpecDecoded == Init /\ [][NextDecoded]_vars

\* ------------------------------------------------------------ names in bulk
\* Names handed to the dictionary in one call.
NamesMaxLen == 3

\* Names of 254 and of 255 bytes: with a name of one byte the dictionary
\* holds 255 and 256 bytes of names.
Name254 == [i \in 1..254 |-> 110]
Name255 == [i \in 1..255 |-> 111]

\* The name lists: any names, in any order, with repetitions.
NameLists == UNION {[1..k -> {NameA, NameB, Name254, Name255}] : k \in 0..NamesMaxLen}

\* VariantBuilder::with_field_names
with_field_names(md, field_names) == extend(md, field_names)

\* FromIterator::from_iter for MetadataBuilder
from_iter(iter) == extend(NewMetadataBuilder(<<>>), iter)

\* A new builder and the names its caller holds (given.metadata); nops counts
\* the names handed over one at a time.
InitNames ==
    /\ \E names \in NameLists : given = [NothingGiven EXCEPT !.metadata = names]
    /\ stack = new.stack
    /\ metadata_builder = new.md
    /\ output = NoOutput
    /\ decoded = <<>>
    /\ abandoned = {}
    /\ last = [op |-> "new", key |-> <<>>, value |-> VNull, res |-> Ok,
               stack |-> <<>>, md |-> NewMetadataBuilder(<<>>)]
    /\ nops = 0
    /\ twin = <<>>

\* The names not handed over yet.
NamesLeft == SubSeq(given.metadata, nops + 1, Len(given.metadata))

\* A second builder, which takes `md` as the result of one call.
InBulk(md) == twin' = <<[stack |-> new.stack, md |-> md, output |-> NoOutput]>>

\* add_field_name of the next name.
AddNextFieldName ==
    /\ ~output.done /\ NamesLeft # <<>>
    /\ metadata_builder' = upsert_field_name(metadata_builder, Head(NamesLeft)).md
    /\ last' = Op("add_field_name", Head(NamesLeft), VNull, Ok)
    /\ nops' = nops + 1
    /\ UNCHANGED <<stack, output, decoded, abandoned, given, twin>>

\* VariantBuilder::new().with_field_names(all the names)
WithAllFieldNames ==
    /\ ~output.done /\ twin = <<>> /\ nops = 0
    /\ InBulk(with_field_names(new.md, given.metadata))
    /\ last' = Op("with_field_names", <<>>, VNull, Ok)
    /\ UNCHANGED <<stack, metadata_builder, output, decoded, abandoned, nops, given>>

\* MetadataBuilder::from_iter(all the names)
FromIterAll ==
    /\ ~output.done /\ twin = <<>> /\ nops = 0
    /\ InBulk(from_iter(given.metadata))
    /\ last' = Op("from_iter", <<>>, VNull, Ok)
    /\ UNCHANGED <<stack, metadata_builder, output, decoded, abandoned, nops, given>>

\* MetadataBuilder::extend(the names left) on a copy of the builder that
\* was given the names before them.
ExtendWithRest ==
    /\ ~output.done /\ twin = <<>> /\ nops > 0
    /\ InBulk(extend(metadata_builder, NamesLeft))
    /\ last' = Op("extend", <<>>, VNull, Ok)
    /\ UNCHANGED <<stack, metadata_builder, output, decoded, abandoned, nops, given>>

NextNames ==
    \/ AddNextFieldName
    \/ WithAllFieldNames
    \/ FromIterAll
    \/ ExtendWithRest
    \/ Finish

SpecNames == InitNames /\ [][NextNames]_vars

\* ------------------------------------------------------------ many elements
\* Elements a ListBuilder or ObjectBuilder holds when SpecLarge starts: one
\* and two more make 255 and 256.
FilledSizes == {254, 255}

\* The builders after new_list() or new_object() on a new VariantBuilder and
\* n calls of append_value(Null), or of insert(name, Null) with the n
\* names in turn: each call pushes the offset (sets the field) and writes
\* the one byte of Null.
Filled(kind, names) ==
    LET n == Len(names)
    IN  [NewChildOf(new.stack, kind, <<>>) EXCEPT
            ![2].buffer = Flatten([i \in 1..n |-> append_null]),
            ![2].offsets = IF kind = "list" THEN [i \in 1..n |-> i - 1] ELSE <<>>,
            ![2].fields = IF kind = "object" THEN [i \in 1..n |-> <<i - 1, i - 1>>] ELSE <<>>,
            ![2].upserted = IF kind = "object" THEN {<<names[i], i - 1>> : i \in 1..n} ELSE {},
            ![2].writes = [i \in 1..n |->
                             [key |-> IF kind = "object" THEN names[i] ELSE <<>>,
                              how |-> IF kind = "object" THEN "insert" ELSE "append",
                              value |-> VNull,
                              bytes |-> append_null]]]

\* A list of n Nulls, or an object of n Null fields, under construction.
InitLarge ==
    /\ \E kind \in {"list", "object"}, n \in FilledSizes :
         /\ stack = Filled(kind, GeneratedNames(n))
         /\ metadata_builder = IF kind = "object" THEN Prepared(GeneratedNames(n)) ELSE new.md
    /\ output = NoOutput
    /\ decoded = <<>>
    /\ abandoned = {}
    /\ last = [op |-> "new", key |-> <<>>, value |-> VNull, res |-> Ok,
               stack |-> <<>>, md |-> NewMetadataBuilder(<<>>)]
    /\ nops = 0
    /\ given = NothingGiven
    /\ twin = <<>>

\* Operations of a builder tree in SpecLarge.
LargeMaxOps == 3

LargeCanStep == nops < LargeMaxOps

\* A name the object holds from the start, and one it does not.
LargeKeys == {GeneratedNames(1)[1], NameA}

NextLarge ==
    \/ \E value \in Values : LargeCanStep /\ AppendValue(value)
    \/ \E key \in LargeKeys : LargeCanStep /\ Insert(key, VNull)
    \/ LargeCanStep /\ FinishList
    \/ LargeCanStep /\ FinishObject

SpecLarge == InitLarge /\ [][NextLarge]_vars

\* ------------------------------------------------------------ an object and its children
\* VariantBuilder::new().with_validate_unique_fields(flag), then new_object():
\* the object is the builder in use.
InitNested ==
    /\ \E flag \in BOOLEAN :
         stack = NewChildOf(<<NewBuilder("variant", flag, <<>>, NoParent, FALSE)>>,
                            "object", <<>>)
    /\ metadata_builder = new.md
    /\ output = NoOutput
    /\ decoded = <<>>
    /\ abandoned = {}
    /\ last = [op |-> "new", key |-> <<>>, value |-> VNull, res |-> Ok,
               stack |-> <<>>, md |-> NewMetadataBuilder(<<>>)]
    /\ nops = 0
    /\ given = NothingGiven
    /\ twin = <<>>

\* Operations on the object and the builders below it in SpecNested.
NestedMaxOps == 4

NestedCanStep == nops < NestedMaxOps

NextNested ==
    \/ \E value \in Values : NestedCanStep /\ AppendValue(value)
    \/ \E key \in Names, value \in Values : NestedCanStep /\ Insert(key, value)
    \/ NestedCanStep /\ NewList
    \/ NestedCanStep /\ NewObject
    \/ NestedCanStep /\ FinishList
    \/ NestedCanStep /\ FinishObject
    \/ NestedCanStep /\ DropBuilder

SpecNested == InitNested /\ [][NextNested]_vars

\* ------------------------------------------------------------ a list and its children
\* VariantBuilder::new().with_validate_unique_fields(flag), then new_list()
\* and append_value(42i8): the list, holding one element, is the builder in
\* use.
InitInList ==
    /\ \E flag \in BOOLEAN :
         stack = AppendValueTo(
                    NewChildOf(<<NewBuilder("variant", flag, <<>>, NoParent, FALSE)>>,
                               "list", <<>>),
                    new.md, VInt8(42)).stack
    /\ metadata_builder = new.md
    /\ output = NoOutput
    /\ decoded = <<>>
    /\ abandoned = {}
    /\ last = [op |-> "new", key |-> <<>>, value |-> VNull, res |-> Ok,
               stack |-> <<>>, md |-> NewMetadataBuilder(<<>>)]
    /\ nops = 0
    /\ given = NothingGiven
    /\ twin = <<>>

\* The builder in use at the start is an object without fields or a list
\* with an element.
InitChildren == InitNested \/ InitInList

SpecChildren == InitChildren /\ [][NextNested]_vars

\* ------------------------------------------------------------ an object with fields
\* The keys given to insert before the first operation of SpecFields.
FieldsMaxLen == 3

KeyLists == UNION {[1..k -> Names] : k \in 0..FieldsMaxLen}

\* The names given to with_field_names: none, all in name order, all out of
\* name order.
SeedLists == {<<>>, <<NameA, NameAB, NameB>>, <<NameB, NameA, NameAB>>}

\* The value inserted under each key: one, two and three bytes.
FieldValue(key) ==
    CASE key = NameA -> VNull [] key = NameAB -> VInt8(42)
      [] key = NameB -> VShortString(NameAB)

\* VariantBuilder::new().with_validate_unique_fields(flag)
\* .with_field_names(seed), new_object() and one insert for each key of a
\* list: the object is the builder in use.
InitFields ==
    /\ \E flag \in BOOLEAN, seed \in SeedLists, keys \in KeyLists :
         LET builders == NewChildOf(<<NewBuilder("variant", flag, <<>>, NoParent, FALSE)>>,
                                    "object", <<>>)
             r == InsertAll(TopOf(builders), with_field_names(new.md, seed),
                            [i \in 1..Len(keys) |-> <<keys[i], FieldValue(keys[i])>>])
         IN  /\ stack = ReplaceTopOf(builders, r.builder)
             /\ metadata_builder = r.md
             /\ given = [NothingGiven EXCEPT !.metadata = seed]
    /\ output = NoOutput
    /\ decoded = <<>>
    /\ abandoned = {}
    /\ last = [op |-> "new", key |-> <<>>, value |-> VNull, res |-> Ok,
               stack |-> <<>>, md |-> NewMetadataBuilder(<<>>)]
    /\ nops = 0
    /\ twin = <<>>

\* Operations on the object in SpecFields.
FieldsMaxOps == 2

FieldsCanStep == nops < FieldsMaxOps

NextFields ==
    \/ \E key \in Names : FieldsCanStep /\ Insert(key, PlainObject)
    \/ FieldsCanStep /\ FinishObject
    \/ FieldsCanStep /\ DropBuilder

SpecFields == InitFields /\ [][NextFields]_vars

\* ------------------------------------------------------------ strings
\* Texts of 0, 2, 5 and 63 bytes ("", "hi", "hello", 63 times "s"), which a
\* ShortString can hold, and one of 64 bytes.
Text63 == [i \in 1..63 |-> 115]
Text64 == [i \in 1..64 |-> 116]
ShortTexts == {<<>>, <<104, 105>>, <<104, 101, 108, 108, 111>>, Text63}

\* Each text under both tags, the longer one as a String.
StringValues ==
    {VShortString(s) : s \in ShortTexts} \cup {VString(s) : s \in ShortTexts \cup {Text64}}

\* Operations of SpecStrings.
StringMaxOps == 3

StringCanStep == nops < StringMaxOps

NextStrings ==
    \/ \E value \in StringValues : StringCanStep /\ AppendValue(value)
    \/ \E value \in StringValues : StringCanStep /\ Insert(NameA, value)
    \/ StringCanStep /\ NewList
    \/ StringCanStep /\ NewObject
    \/ StringCanStep /\ FinishList
    \/ StringCanStep /\ FinishObject
    \/ Finish

SpecStrings == Init /\ [][NextStrings]_vars

\* ------------------------------------------------------------ properties
\* The builders the last operation ran on, the builder it finished or
\* dropped, that builder's parent, and the bytes a finish appended to the
\* parent (which is the last builder afterwards).
PreStack == last.stack
Gone == PreStack[Len(PreStack)]
PreParent == PreStack[Len(PreStack) - 1]
Emitted == SubSeq(Top.buffer, Len(PreParent.buffer) + 1, Len(Top.buffer))
FinishedObject == last.op = "finish_object" /\ last.res.ok
FinishedList == last.op = "finish_list"

IsPrefix(s, t) == Len(s) <= Len(t) /\ SubSeq(t, 1, Len(s)) = s

\* Where the i-th write of a builder starts in its buffer.
WriteStart(b, i) == SumLen([j \in 1..(i - 1) |-> b.writes[j].bytes])

\* The keys written to an object, and the index of the last write of a key.
KeysWritten(b) == {b.writes[i].key : i \in 1..Len(b.writes)}
LastWrite(b, key) ==
    CHOOSE i \in 1..Len(b.writes) :
        /\ b.writes[i].key = key
        /\ \A j \in (i + 1)..Len(b.writes) : b.writes[j].key # key

\* The strictly ascending sequence of the names in a set.
Ascending(S) ==
    CHOOSE q \in [1..Cardinality(S) -> S] :
        \A i, j \in 1..Cardinality(S) : i < j => StrLess(q[i], q[j])

\* C1: while a child is outstanding, and after it is dropped without finish,
\* the parent's value buffer, list offsets and field map are what they were
\* when the child was spawned.
C1_AbandonmentNeutral ==
    /\ \A i \in 2..Len(stack) : ParentSlots(stack[i - 1]) = stack[i].at_spawn
    /\ last.op = "drop" => ParentSlots(Top) = Gone.at_spawn

\* A child that holds a finished grandchild is dropped from a parent whose
\* buffer is not empty.
C1_Witness ==
    /\ last.op = "drop"
    /\ \E i \in 1..Len(Gone.writes) : Gone.writes[i].how = "child"
    /\ Gone.at_spawn.buffer # <<>>

\* C2: an ObjectBuilder::finish that returns the duplicate-fields error
\* leaves the parent's buffer, offsets and field map, every builder above it
\* and the dictionary as they were before the call.
C2_FailedFinishSplicesNothing ==
    (last.op = "finish_object" /\ ~last.res.ok) =>
        /\ Len(stack) = Len(PreStack) - 1
        /\ \A i \in 1..Len(stack) : ParentSlots(stack[i]) = ParentSlots(PreStack[i])
        /\ metadata_builder.field_names = last.md.field_names
        /\ metadata_builder.is_sorted = last.md.is_sorted

\* The finish of an object nested in an object fails, and its pending key is
\* not in the dictionary.
C2_Witness ==
    /\ last.op = "finish_object" /\ ~last.res.ok
    /\ PreParent.kind = "object"
    /\ Gone.field_name \notin Range(metadata_builder.field_names)

\* C3: the field ids an object is emitted with are the ids of the distinct
\* keys written to it, in strictly ascending order of their names.
C3_FieldIdsSortedByName ==
    FinishedObject =>
        LET ids == WireObject(Emitted).ids
            name(i) == last.md.field_names[ids[i] + 1]
        IN  /\ Len(ids) = Cardinality(KeysWritten(Gone))
            /\ \A i \in 1..Len(ids) : ids[i] < Len(last.md.field_names)
            /\ {name(i) : i \in 1..Len(ids)} = KeysWritten(Gone)
            /\ \A i, j \in 1..Len(ids) : i < j => StrLess(name(i), name(j))

\* b, a, ab inserted into a fresh builder get the ids 0, 1, 2 and are emitted
\* as 1, 2, 0.
C3_Witness ==
    /\ FinishedObject
    /\ last.md.field_names = <<NameB, NameA, NameAB>>
    /\ WireObject(Emitted).ids = <<1, 2, 0>>

\* C4: a list is emitted with one offset per element added (by append_value
\* or by the finish of a child), in the order added, and the i-th offset is
\* where the i-th element lies in the data region.
C4_ListOffsetsInInsertionOrder ==
    FinishedList =>
        LET w == WireArray(Emitted)
            n == Len(Gone.writes)
        IN  /\ Len(w.offsets) = n + 1
            /\ \A i \in 1..n :
                 SubSeq(w.data, w.offsets[i] + 1, w.offsets[i + 1]) = Gone.writes[i].bytes

\* A list with an appended value and a finished child is emitted.
C4_Witness ==
    /\ FinishedList
    /\ \E i, j \in 1..Len(Gone.writes) :
         Gone.writes[i].how = "append" /\ Gone.writes[j].how = "child"

RECURSIVE Dedup(_)
\* The first occurrences of a sequence, in order.
Dedup(q) ==
    IF q = <<>> THEN <<>>
    ELSE LET d == Dedup(SubSeq(q, 1, Len(q) - 1))
         IN  IF q[Len(q)] \in Range(d) THEN d ELSE Append(d, q[Len(q)])

\* C5: the id of a name is its 0-based first-upsert index, no operation
\* changes the id of a name, and the upsert of a present name leaves the
\* dictionary as it is.
C5_DictionaryIdsStable ==
    /\ metadata_builder.field_names = Dedup(metadata_builder.upserts)
    /\ IsPrefix(last.md.field_names, metadata_builder.field_names)
    /\ (last.op \in {"insert", "add_field_name"} /\ last.key \in Range(last.md.field_names)) =>
            /\ metadata_builder.field_names = last.md.field_names
            /\ last.op = "insert" =>
                 HasField(Top.fields, IndexOfName(last.md.field_names, last.key))

\* A name that is not the last of the dictionary is inserted again.
C5_Witness ==
    /\ last.op = "insert"
    /\ last.key \in Range(last.md.field_names)
    /\ IndexOfName(last.md.field_names, last.key) + 1 < Len(last.md.field_names)

\* C6: the names upserted below a dropped builder stay in the dictionary, and
\* in the metadata the root's finish returns, at the ids they got.
C6_AbandonedNamesStay ==
    /\ \A e \in abandoned :
         /\ e[2] < Len(metadata_builder.field_names)
         /\ metadata_builder.field_names[e[2] + 1] = e[1]
    /\ last.op = "drop" =>
         /\ metadata_builder.field_names = last.md.field_names
         /\ metadata_builder.is_sorted = last.md.is_sorted
    /\ output.done =>
         LET names == MetadataNames(output.metadata)
         IN  \A e \in abandoned : e[2] < Len(names) /\ names[e[2] + 1] = e[1]

\* The root finishes after a builder with a name of id 1 or more was dropped.
C6_Witness == output.done /\ \E e \in abandoned : e[2] >= 1

\* The keys a later insert found already written, and the keys insert was
\* called with more than once.
FoundPresent(b) ==
    {b.writes[j].key : j \in {j \in 1..Len(b.writes) :
        b.writes[j].how = "insert" /\ \E i \in 1..(j - 1) : b.writes[i].key = b.writes[j].key}}
InsertedTwice(b) ==
    {b.writes[j].key : j \in {j \in 1..Len(b.writes) :
        b.writes[j].how = "insert" /\ \E i \in 1..(j - 1) :
            b.writes[i].how = "insert" /\ b.writes[i].key = b.writes[j].key}}

\* "Invalid argument error: Duplicate field keys detected: [n1, n2]"
DuplicateFieldsText(S) ==
    <<73, 110, 118, 97, 108, 105, 100, 32, 97, 114, 103, 117, 109, 101, 110, 116, 32, 101, 114, 114, 111, 114, 58, 32, 68, 117, 112, 108, 105, 99, 97, 116, 101, 32, 102, 105, 101, 108, 100, 32, 107, 101, 121, 115, 32, 100, 101, 116, 101, 99, 116, 101, 100, 58, 32, 91>>
        \o JoinNames(Ascending(S)) \o <<93>>

\* Validation was on for the whole life of the builder.
Validated(b) == b.validate_unique_fields /\ ~b.overridden

\* C7 as stated: the finish of a validated object fails exactly if a key was
\* passed to insert more than once, and the error lists those keys.
C7_Original ==
    (last.op = "finish_object" /\ Validated(Gone)) =>
        IF InsertedTwice(Gone) = {} THEN last.res.ok
        ELSE ~last.res.ok /\ ErrorToString(last.res) = DuplicateFieldsText(InsertedTwice(Gone))

\* C7 amended: the finish of a validated object fails exactly if an insert
\* found its key already written (by an insert or by a finished child), and
\* the error lists those keys once each, ascending, joined by ", ".
C7_DuplicateFieldsError ==
    (last.op = "finish_object" /\ Validated(Gone)) =>
        IF FoundPresent(Gone) = {} THEN last.res.ok
        ELSE ~last.res.ok /\ ErrorToString(last.res) = DuplicateFieldsText(FoundPresent(Gone))

\* The finish of a validated object with a key inserted twice fails.
C7_Witness ==
    /\ last.op = "finish_object" /\ Validated(Gone)
    /\ InsertedTwice(Gone) # {}
    /\ ~last.res.ok

\* C8: without validation finish succeeds, and the object has one field per
\* key whose offset is where the last value written for the key starts; the
\* data size counts every value written.
C8_LastInsertWins ==
    (last.op = "finish_object" /\ ~Gone.validate_unique_fields) =>
        /\ last.res.ok
        /\ LET w == WireObject(Emitted)
               n == Len(w.ids)
           IN  /\ n = Cardinality(KeysWritten(Gone))
               /\ w.offsets[n + 1] = SumLen([j \in 1..Len(Gone.writes) |-> Gone.writes[j].bytes])
               /\ w.data = Gone.buffer
               /\ \A i \in 1..n :
                    LET key == last.md.field_names[w.ids[i] + 1]
                    IN  /\ key \in KeysWritten(Gone)
                        /\ w.offsets[i] = WriteStart(Gone, LastWrite(Gone, key))

\* An object without validation is emitted after a key was inserted twice
\* with values of different length.
C8_Witness ==
    /\ FinishedObject /\ ~Gone.validate_unique_fields
    /\ \E i, j \in 1..Len(Gone.writes) :
         /\ i < j
         /\ Gone.writes[i].key = Gone.writes[j].key
         /\ Gone.writes[i].how = "insert" /\ Gone.writes[j].how = "insert"
         /\ Len(Gone.writes[i].bytes) > Len(Gone.writes[j].bytes)

\* C9: a builder below the VariantBuilder has the VariantBuilder's flag
\* unless with_validate_unique_fields was called on the way, so with the flag
\* on the finish of an object with a key inserted twice fails.
C9_ValidationPropagates ==
    /\ \A i \in 2..Len(stack) :
         ~stack[i].overridden => stack[i].validate_unique_fields = Root.validate_unique_fields
    /\ (last.op = "finish_object" /\ ~Gone.overridden
            /\ PreStack[1].validate_unique_fields /\ InsertedTwice(Gone) # {}) =>
         ~last.res.ok

\* The finish of an object in a list fails for a key inserted twice.
C9_Witness ==
    /\ last.op = "finish_object" /\ ~Gone.overridden
    /\ Len(PreStack) = 3 /\ PreParent.kind = "list"
    /\ InsertedTwice(Gone) # {}
    /\ ~last.res.ok

\* C10: a decoded variant appended to a fresh builder is read back from the
\* (metadata, value) finish returns as an equal variant.
C10_RoundTrip ==
    (decoded # <<>> /\ Len(Root.writes) = 1) => decoded[1] = Root.writes[1].value

\* An object that holds a list with an element was appended and read back.
C10_Witness ==
    /\ decoded # <<>> /\ Len(Root.writes) = 1
    /\ decoded[1][1] = "object"
    /\ \E i \in 1..Len(decoded[1][2]) :
         decoded[1][2][i][2][1] = "list" /\ decoded[1][2][i][2][2] # <<>>

\* The names of the dictionary blob at the end of the metadata finish
\* returned, past the bytes the builder was given.
NamesPastGiven ==
    MetadataNames(SubSeq(output.metadata, Len(given.metadata_buffer) + 1, Len(output.metadata)))

\* C12: new_with_buffers(m0, v0), the operations and finish return
\* (m0 ++ M, v0 ++ V), with (M, V) what VariantBuilder::new() returns for the
\* same operations.
C12_BuffersKeptAsPrefix ==
    (output.done /\ twin # <<>>) =>
        /\ output.metadata = given.metadata_buffer \o twin[1].output.metadata
        /\ output.value = given.value_buffer \o twin[1].output.value

\* An object with a field was built after the caller's bytes.
C12_Witness ==
    /\ output.done /\ twin # <<>>
    /\ given.metadata_buffer # <<>> /\ given.value_buffer # <<>>
    /\ \E i \in 1..Len(Root.writes) :
         Root.writes[i].how = "child" /\ Len(Root.writes[i].bytes) > 3
    /\ metadata_builder.field_names # <<>>

\* C13 as stated: the metadata finish returns is the regenerated blob alone,
\* without the bytes the builder was given.
C13_Original ==
    (output.done /\ twin # <<>> /\ given.metadata_buffer # <<>>) =>
        output.metadata = twin[1].output.metadata

\* C13, amended: the bytes given are kept as a prefix, and what follows them
\* is the dictionary blob written from scratch (of three bytes at least),
\* which holds the builder's names in id order.
C13_GivenMetadataKept ==
    (output.done /\ given.metadata_buffer # <<>>) =>
        /\ IsPrefix(given.metadata_buffer, output.metadata)
        /\ Len(output.metadata) >= Len(given.metadata_buffer) + 3
        /\ NamesPastGiven = metadata_builder.field_names

C13_Witness ==
    /\ output.done /\ given.metadata_buffer # <<>>
    /\ Len(metadata_builder.field_names) >= 2

\* C11: with_metadata(m), append_value(v) for an object variant v of m and
\* finish return a dictionary with the names of m at their ids and a value
\* that is read back equal to v.
C11_PreparedDictionaryKept ==
    (decoded # <<>> /\ Len(Root.writes) = 1) =>
        /\ MetadataNames(output.metadata) = given.metadata
        /\ decoded[1] = Root.writes[1].value

\* An object holding an object was appended under a dictionary that is not
\* in name order.
C11_Witness ==
    /\ decoded # <<>> /\ Len(Root.writes) = 1
    /\ given.metadata = <<NameB, NameAB, NameA>>
    /\ \E i \in 1..Len(decoded[1][2]) :
         /\ decoded[1][2][i][2][1] = "object"
         /\ decoded[1][2][i][2][2] # <<>>

\* The names are in strictly ascending order, each below the next.
StrictlyAscending(names) ==
    \A i \in 1..(Len(names) - 1) : StrLess(names[i], names[i + 1])

\* C14: is_sorted holds exactly if the dictionary is non-empty and its names
\* are strictly ascending in insertion order; an operation that adds no name
\* leaves it as it was, and once false with a name present it stays false.
C14_IsSortedTracksOrder ==
    /\ metadata_builder.is_sorted <=>
         (metadata_builder.field_names # <<>>
            /\ StrictlyAscending(metadata_builder.field_names))
    /\ last.md.field_names = metadata_builder.field_names =>
         metadata_builder.is_sorted = last.md.is_sorted
    /\ (last.md.field_names # <<>> /\ ~last.md.is_sorted) => ~metadata_builder.is_sorted

\* A name above the last one was added to a dictionary that was out of order
\* already.
C14_Witness ==
    /\ last.md.field_names = <<NameB, NameA>>
    /\ metadata_builder.field_names = <<NameB, NameA, NameAB>>
    /\ ~metadata_builder.is_sorted

HeaderOffsetSize(h) == ((h \div 4) % 4) + 1
HeaderIdSize(h) == ((h \div 16) % 4) + 1

\* Values at both ends of the ranges of int_size.
WidthSamples == {0, 1, 255, 256, 65535, 65536, 16777215, 16777216, 2147483647}

\* C16: the header of every array and object emitted carries
\* offset_size = int_size(data_size) and, for an object,
\* id_size = int_size(largest field id, 0 if none); every offset and id is
\* read back from the wire as it was, and int_size gives the smallest width
\* that does not truncate.
C16_WidthsAreMinimal ==
    /\ FinishedList =>
         /\ HeaderOffsetSize(Emitted[1]) = int_size(Len(Gone.buffer))
         /\ WireArray(Emitted).offsets = Append(Gone.offsets, Len(Gone.buffer))
    /\ FinishedObject =>
         LET sorted == SortFieldsByName(Gone.fields, last.md)
         IN  /\ HeaderOffsetSize(Emitted[1]) = int_size(Len(Gone.buffer))
             /\ HeaderIdSize(Emitted[1]) = int_size(MaxFieldId(Gone.fields))
             /\ WireObject(Emitted).ids = [i \in 1..Len(sorted) |-> sorted[i][1]]
             /\ WireObject(Emitted).offsets =
                    Append([i \in 1..Len(sorted) |-> sorted[i][2]], Len(Gone.buffer))
    /\ (last.op \in {"append_value", "insert"} /\ last.value[1] = "list") =>
         LET bytes == Top.writes[Len(Top.writes)].bytes
             w == WireArray(bytes)
         IN  /\ HeaderOffsetSize(bytes[1]) = int_size(Len(w.data))
             /\ w.offsets[Len(w.offsets)] = Len(w.data)
             /\ Len(w.data) = IF last.value = List255 THEN 255 ELSE 256
    /\ \A v \in WidthSamples :
         /\ ReadLE(write_offset(v, int_size(v)), 1, int_size(v)) = v
         /\ int_size(v) > 1 =>
              ReadLE(write_offset(v, int_size(v) - 1), 1, int_size(v) - 1) # v

\* An object whose data takes 256 bytes and whose one field has the id 256
\* was emitted, with two-byte offsets and ids.
C16_Witness ==
    /\ FinishedObject
    /\ Len(Gone.buffer) > 255 /\ MaxFieldId(Gone.fields) = 256
    /\ HeaderOffsetSize(Emitted[1]) = 2 /\ HeaderIdSize(Emitted[1]) = 2

\* C17: with validation enabled on the builder, try_append_value and
\* try_insert return Err for a variant that holds an object with a field name
\* twice.
C17_DuplicateNamesRejected ==
    (/\ last.op \in {"append_value", "insert"}
     /\ Gone.validate_unique_fields
     /\ HasDuplicateNames(last.value)) => ~last.res.ok

\* The names of the fields of the object emitted by the last operation.
EmittedNames ==
    {field_name(metadata_builder, WireObject(Emitted).ids[i]) :
        i \in 1..Len(WireObject(Emitted).ids)}

\* What test_object_builder_to_object_builder_inner_no_finish builds, with
\* the names f(irst), n(ame), s(econd) and the key o for the nested object:
\* insert f = 1; new_object(o), insert n, drop; insert s = 2; finish; finish.
AbandonedNestedExample ==
    LET o1 == NewChildOf(new.stack, "object", <<>>)
        i1 == InsertInto(o1, new.md, <<102>>, VInt8(1))
        o2 == NewChildOf(i1.stack, "object", <<111>>)
        i2 == InsertInto(o2, i1.md, <<110>>, VShortString(<<117>>))
        i3 == InsertInto(Leave(i2.stack), i2.md, <<115>>, VInt8(2))
        f1 == object_finish(i3.stack, i3.md)
    IN  variant_finish(f1.stack[1], f1.md)

\* C18: new_object(key) / new_list(key) and the drop of a child leave the
\* dictionary and the parent's field map as they were; the key is upserted
\* and mapped to the child's starting offset when the child finishes; a
\* finished object holds the keys inserted and the keys of finished children,
\* and no other; the example with an abandoned nested object yields the
\* object {f: 1, s: 2} and the dictionary [f, n, s].
C18_KeyReservedAtFinish ==
    /\ last.op \in {"new_list", "new_object"} =>
         /\ metadata_builder = last.md
         /\ stack[Len(PreStack)] = Gone
    /\ last.op = "drop" =>
         /\ metadata_builder = last.md
         /\ Top.fields = PreParent.fields
    /\ ((FinishedList \/ FinishedObject) /\ PreParent.kind = "object") =>
         /\ Gone.field_name \in Range(metadata_builder.field_names)
         /\ \E i \in 1..Len(Top.fields) :
              Top.fields[i] = <<IndexOfName(metadata_builder.field_names, Gone.field_name),
                                Len(PreParent.buffer)>>
    /\ FinishedObject => EmittedNames = KeysWritten(Gone)
    /\ MetadataNames(AbandonedNestedExample.metadata) = <<<<102>>, <<110>>, <<115>>>>
    /\ DecodeVariant(AbandonedNestedExample.metadata, AbandonedNestedExample.value)
         = VObject(<<<<<<102>>, VInt8(1)>>, <<<<115>>, VInt8(2)>>>>)

\* An object is finished whose only child was abandoned after an insert: it
\* has no field, and the dictionary holds the name the child inserted alone.
C18_Witness ==
    /\ FinishedObject
    /\ Gone.writes = <<>> /\ Gone.upserted # {}
    /\ WireObject(Emitted).ids = <<>>
    /\ Len(metadata_builder.field_names) = 1

\* C19: the finish of an object on which validation is enabled fails if a
\* key was passed to insert more than once, whenever that happened.
C19_RepeatedInsertRejected ==
    (/\ last.op = "finish_object"
     /\ Gone.validate_unique_fields
     /\ InsertedTwice(Gone) # {}) => ~last.res.ok

\* The bytes the last append_value or insert added to the buffer of the
\* builder it was called on.
Written == SubSeq(Top.buffer, Len(Gone.buffer) + 1, Len(Top.buffer))

\* The width in bytes of the payload of a fixed-width integer, and its
\* primitive type id.
PayloadWidth(v) == CASE v[1] = "int8" -> 1 [] v[1] = "int16" -> 2 [] v[1] = "int32" -> 4

PrimitiveTypeOf(v) ==
    CASE v[1] = "int8" -> PrimInt8 [] v[1] = "int16" -> PrimInt16 [] v[1] = "int32" -> PrimInt32

\* The signed integer a little-endian two's complement payload stands for.
SignedLE(payload) ==
    LET n == Len(payload)
    IN  IF payload[n] >= 128
        THEN -(1 + ReadLE([i \in 1..n |-> 255 - payload[i]], 1, n))
        ELSE ReadLE(payload, 1, n)

\* C20: a fresh builder given Int8(42) alone returns the value bytes
\* [0x0C, 0x2A] and the metadata [0x01, 0x00, 0x00]; and an append or insert
\* of a fixed-width integer writes one header byte, the primitive type id
\* shifted left by two over the Primitive tag, then the value in as many
\* little-endian bytes as its width.
C20_FixedWidthPrimitiveLayout ==
    /\ (/\ output.done
        /\ Len(Root.writes) = 1 /\ Root.writes[1].value = VInt8(42)
        /\ metadata_builder.field_names = <<>>)
            => (output.value = <<12, 42>> /\ output.metadata = <<1, 0, 0>>)
    /\ (/\ last.op \in {"append_value", "insert"}
        /\ last.value \in FixedWidthValues)
            => /\ last.res.ok
               /\ Len(Written) = 1 + PayloadWidth(last.value)
               /\ Written[1] \div 4 = PrimitiveTypeOf(last.value)
               /\ Written[1] % 4 = BasicPrimitive
               /\ SignedLE(SubSeq(Written, 2, Len(Written))) = last.value[2]

\* Int8(42) alone was appended to a fresh builder, as header and payload,
\* and the builder was finished.
C20_Witness ==
    /\ output.done /\ last.op = "finish"
    /\ Len(Root.writes) = 1 /\ Root.writes[1].value = VInt8(42)
    /\ Root.writes[1].bytes = <<primitive_header(PrimInt8), 42>>
    /\ metadata_builder.field_names = <<>>

\* C21: the dictionary built in one call (with_field_names, from_iter, or
\* extend on a builder that holds names already) has the names, the ids and
\* the is_sorted flag of the dictionary built by one upsert per name in the
\* same order; and the upsert of a name that is present changes neither.
C21_BulkEqualsSingleUpserts ==
    /\ (twin # <<>> /\ NamesLeft = <<>>) =>
          /\ TwinMd.field_names = metadata_builder.field_names
          /\ TwinMd.is_sorted = metadata_builder.is_sorted
    /\ (last.op = "add_field_name" /\ last.key \in Range(last.md.field_names)) =>
          /\ metadata_builder.field_names = last.md.field_names
          /\ metadata_builder.is_sorted = last.md.is_sorted

\* A builder that held a name took, in one call of extend, that name again
\* and a new one, and the other builder took the three one by one.
C21_Witness ==
    /\ twin # <<>> /\ NamesLeft = <<>>
    /\ given.metadata = <<NameB, NameB, NameA>>
    /\ last.op = "add_field_name"
    /\ TwinMd.upserts = <<NameB, NameB, NameA>>
    /\ TwinMd.field_names = <<NameB, NameA>>

\* The number of bytes the value encoded at the head of bytes takes.
ValueSize(bytes) ==
    LET h == bytes[1]
        basic_type == h % 4
        upper == h \div 4
    IN  CASE basic_type = BasicPrimitive /\ upper = PrimInt8 -> 2
          [] basic_type = BasicPrimitive /\ upper = PrimInt16 -> 3
          [] basic_type = BasicPrimitive /\ upper = PrimInt32 -> 5
          [] basic_type = BasicPrimitive /\ upper \in {PrimNull, PrimBooleanTrue, PrimBooleanFalse} -> 1
          [] basic_type = BasicShortString -> 1 + upper
          [] basic_type = BasicObject ->
                LET w == WireObject(bytes)
                IN  (Len(bytes) - Len(w.data)) + w.offsets[Len(w.offsets)]
          [] basic_type = BasicArray ->
                LET w == WireArray(bytes)
                IN  (Len(bytes) - Len(w.data)) + w.offsets[Len(w.offsets)]

\* What was written to the builder, in write order.
BytesOfWrites(b) == Flatten([i \in 1..Len(b.writes) |-> b.writes[i].bytes])

\* C22: the buffer of every outstanding builder is what it started with
\* followed by the values written to it, each one whole, in write order (a
\* child leaves nothing in it before it finishes); and an operation leaves
\* the bytes a buffer held where they were.
C22_BuffersHoldWholeValues ==
    /\ \A i \in 1..Len(stack) :
         /\ stack[i].buffer
              = (IF i = 1 THEN given.value_buffer ELSE <<>>) \o BytesOfWrites(stack[i])
         /\ \A j \in 1..Len(stack[i].writes) :
              /\ stack[i].writes[j].bytes # <<>>
              /\ ValueSize(stack[i].writes[j].bytes) = Len(stack[i].writes[j].bytes)
    /\ \A i \in 1..Len(stack) :
         i <= Len(PreStack) => IsPrefix(PreStack[i].buffer, stack[i].buffer)

\* A list was finished into a builder that held a value already, and the
\* buffer is that value followed by the list.
C22_Witness ==
    /\ FinishedList
    /\ Len(Top.writes) = 2
    /\ PreParent.buffer # <<>>
    /\ Top.buffer = PreParent.buffer \o Emitted
    /\ Emitted = Top.writes[2].bytes

\* The dictionary try_append_variant sees when it is handed the value of the
\* last operation: try_insert has upserted the key by then.
Snapshot ==
    IF last.op = "insert" THEN upsert_field_name(last.md, last.key).md.field_names
    ELSE last.md.field_names

\* The place of a name of the object variant `v` among its names: by index in
\* the snapshot, and after every name of the snapshot, in the order of v, if
\* the snapshot does not hold it.
PlaceOf(v, name) ==
    IF name \in Range(Snapshot) THEN IndexOfName(Snapshot, name)
    ELSE Len(Snapshot) + (CHOOSE i \in 1..Len(v[2]) : v[2][i][1] = name)

\* C23: the values of a re-appended object are written in the order of their
\* names' indices in the dictionary as it was before the re-append, the
\* values of the names it did not hold after those of the names it held, in
\* the order of the source.
C23_PresentNamesBeforeAbsent ==
    (/\ last.op \in {"append_value", "insert"}
     /\ last.value[1] = "object"
     /\ ~HasDuplicateNames(last.value)
     /\ last.res.ok) =>
        LET w == WireObject(Written)
            name(i) == field_name(metadata_builder, w.ids[i])
        IN  \A i, j \in 1..Len(w.ids) :
                PlaceOf(last.value, name(i)) < PlaceOf(last.value, name(j))
                    => w.offsets[i] < w.offsets[j]

\* What MetadataBuilder::finish wrote: the metadata returned, past the bytes
\* the builder was constructed with.
Blob == SubSeq(output.metadata, Len(given.metadata_buffer) + 1, Len(output.metadata))

\* C24: the metadata blob is the header byte 0x01 | is_sorted << 4 |
\* (offset_size - 1) << 6, the number of names, one offset for each name and
\* a last one (each the sum of the lengths of the names before it), then the
\* names in id order; numbers take offset_size = int_size(max(total name
\* bytes, number of names)) bytes in little-endian order, so the blob takes
\* 1 + offset_size * (nkeys + 2) + total name bytes.
C24_MetadataBlobLayout ==
    output.done =>
        LET names == metadata_builder.field_names
            nkeys == Len(names)
            total_name_bytes == SumLen(names)
            offset_size == int_size(Max(total_name_bytes, nkeys))
        IN  /\ Len(Blob) = 1 + offset_size * (nkeys + 2) + total_name_bytes
            /\ Blob[1] = 1 + (IF metadata_builder.is_sorted THEN 16 ELSE 0)
                           + (offset_size - 1) * 64
            /\ ReadLE(Blob, 2, offset_size) = nkeys
            /\ \A i \in 0..nkeys :
                 ReadLE(Blob, 2 + offset_size * (i + 1), offset_size)
                    = SumLen(SubSeq(names, 1, i))
            /\ SubSeq(Blob, 2 + offset_size * (nkeys + 2), Len(Blob)) = Flatten(names)

\* A dictionary of two names that take 256 bytes was finished: its numbers
\* take two bytes each.
C24_Witness ==
    /\ output.done
    /\ metadata_builder.field_names = <<NameA, Name255>>
    /\ Len(Blob) = 1 + 2 * 4 + 256
    /\ Blob[1] = 1 + 16 + 64

\* C25: a finished list of n elements whose buffer held data_size bytes adds
\* to its parent the array header byte, n in one byte (four if n > 255), the
\* start of each element in insertion order and then data_size, each in
\* offset_size little-endian bytes, and the buffer as it was:
\* 1 + (1 or 4) + (n + 1) * offset_size + data_size bytes.
C25_ListLayout ==
    FinishedList =>
        LET n == Len(Gone.writes)
            data_size == Len(Gone.buffer)
            offset_size == int_size(data_size)
            count_size == IF n > 255 THEN 4 ELSE 1
            offsets_at == 2 + count_size
        IN  /\ Len(Emitted) = 1 + count_size + (n + 1) * offset_size + data_size
            /\ Emitted[1] = array_header(n > 255, offset_size)
            /\ ReadLE(Emitted, 2, count_size) = n
            /\ \A i \in 1..n :
                 ReadLE(Emitted, offsets_at + (i - 1) * offset_size, offset_size)
                    = WriteStart(Gone, i)
            /\ ReadLE(Emitted, offsets_at + n * offset_size, offset_size) = data_size
            /\ SubSeq(Emitted, offsets_at + (n + 1) * offset_size, Len(Emitted)) = Gone.buffer

\* A list of 256 elements was finished: the count takes four bytes.
C25_Witness ==
    /\ FinishedList
    /\ Len(Gone.writes) = 256
    /\ SubSeq(Emitted, 2, 5) = <<0, 1, 0, 0>>
    /\ Len(Emitted) = 1 + 4 + 257 * 2 + Len(Gone.buffer)

\* C26: an object is emitted with one id per field and one offset more than
\* ids; the offset at each place is where the value last written for the
\* field at that place (by insert or by the finish of a child) starts in the
\* data region, that value lies there, and the last offset is the data size.
C26_OffsetsFollowTheirIds ==
    FinishedObject =>
        LET w == WireObject(Emitted)
            n == Len(w.ids)
        IN  /\ Len(w.offsets) = n + 1
            /\ w.offsets[n + 1] = Len(Gone.buffer)
            /\ \A i \in 1..n :
                 LET key == field_name(metadata_builder, w.ids[i])
                     written == Gone.writes[LastWrite(Gone, key)]
                 IN  /\ key \in KeysWritten(Gone)
                     /\ w.offsets[i] = WriteStart(Gone, LastWrite(Gone, key))
                     /\ SubSeq(w.data, w.offsets[i] + 1, w.offsets[i] + Len(written.bytes))
                            = written.bytes

\* An object took a value by insert and then one from a finished child whose
\* name sorts first: the child's offset, the larger, is written first.
C26_Witness ==
    /\ FinishedObject
    /\ Len(Gone.writes) = 2
    /\ Gone.writes[1].how = "insert" /\ Gone.writes[2].how = "child"
    /\ WireObject(Emitted).offsets[1] > WireObject(Emitted).offsets[2]

\* C27: a list or an object is emitted with the large bit set exactly if it
\* holds more than 255 elements or fields; the count that follows the header
\* takes four bytes if the bit is set and one byte otherwise, and is the
\* number of elements added, or of distinct keys written.
C27_LargeBeyond255 ==
    (FinishedList \/ FinishedObject) =>
        LET h == Emitted[1]
            large == IF FinishedList THEN (h \div 16) % 2 = 1 ELSE (h \div 64) % 2 = 1
            count == IF FinishedList THEN Len(Gone.writes)
                     ELSE Cardinality(KeysWritten(Gone))
            header_size == IF FinishedList THEN Len(Emitted) - Len(WireArray(Emitted).data)
                           ELSE Len(Emitted) - Len(WireObject(Emitted).data)
            numbers == IF FinishedList THEN Len(WireArray(Emitted).offsets)
                       ELSE Len(WireObject(Emitted).offsets)
        IN  /\ large <=> count > 255
            /\ ReadLE(Emitted, 2, IF count > 255 THEN 4 ELSE 1) = count
            /\ numbers = count + 1
            /\ Len(Emitted) = header_size + Len(Gone.buffer)

\* An object of 256 fields was finished: large, the count in four bytes.
C27_Witness ==
    /\ FinishedObject
    /\ Cardinality(KeysWritten(Gone)) = 256
    /\ (Emitted[1] \div 64) % 2 = 1
    /\ SubSeq(Emitted, 2, 5) = <<0, 1, 0, 0>>

\* A child with a key was finished into an object that had a field for the
\* key already.
ChildReplacedField ==
    /\ last.op \in {"finish_list", "finish_object"} /\ last.res.ok
    /\ PreParent.kind = "object"
    /\ Gone.field_name \in Range(last.md.field_names)
    /\ HasField(PreParent.fields, IndexOfName(last.md.field_names, Gone.field_name))

\* C28: when a child finishes under a key its parent object has a field for,
\* the field keeps its place and gets the offset at which the child was
\* written, no field is added, the other fields are as they were, and the
\* parent's buffer is what it held followed by the child.
C28_ChildOverwritesField ==
    ChildReplacedField =>
        LET id == IndexOfName(last.md.field_names, Gone.field_name)
        IN  /\ metadata_builder.field_names = last.md.field_names
            /\ Len(Top.fields) = Len(PreParent.fields)
            /\ Cardinality({i \in 1..Len(Top.fields) : Top.fields[i][1] = id}) = 1
            /\ \A i \in 1..Len(Top.fields) :
                 Top.fields[i] = IF PreParent.fields[i][1] = id
                                 THEN <<id, Len(PreParent.buffer)>>
                                 ELSE PreParent.fields[i]
            /\ Top.buffer = PreParent.buffer \o Emitted
            /\ Emitted # <<>>

\* A list was finished under a key that had been inserted: the field moved
\* from the inserted value to the list that follows it in the buffer.
C28_Witness ==
    /\ ChildReplacedField
    /\ last.op = "finish_list"
    /\ \E i \in 1..Len(PreParent.writes) :
         PreParent.writes[i].key = Gone.field_name /\ PreParent.writes[i].how = "insert"
    /\ \E i \in 1..Len(Top.fields) :
         /\ PreParent.fields[i][2] = 0
         /\ Top.fields[i][2] = Len(PreParent.buffer)
         /\ Top.fields[i][2] > 0

\* The names after `name` is upserted into a dictionary that holds `names`.
WithName(names, name) == IF name \in Range(names) THEN names ELSE Append(names, name)

\* What test_object_builder_to_object_builder_outer_no_finish builds, with
\* the names f(irst), n(ame) and the key o for the nested object:
\* insert f = 1; new_object(o), insert n, finish; drop; append 2; finish.
OuterUnfinishedExample ==
    LET o1 == NewChildOf(new.stack, "object", <<>>)
        i1 == InsertInto(o1, new.md, <<102>>, VInt8(1))
        o2 == NewChildOf(i1.stack, "object", <<111>>)
        i2 == InsertInto(o2, i1.md, <<110>>, VShortString(<<117>>))
        f1 == object_finish(i2.stack, i2.md)
        a1 == AppendValueTo(Leave(f1.stack), f1.md, VInt8(2))
    IN  variant_finish(a1.stack[1], a1.md)

\* C29: the dictionary grows at its end only, by the name of an insert that
\* is new and by the key of a child when the child finishes, never when the
\* child is created; so the names a child upserted have smaller ids than the
\* child's key when the key is new, and the example yields the dictionary
\* [f, n, o].
C29_IdsInFirstUpsertOrder ==
    /\ IsPrefix(last.md.field_names, metadata_builder.field_names)
    /\ last.op = "insert" =>
         metadata_builder.field_names = WithName(last.md.field_names, last.key)
    /\ last.op \in {"new_list", "new_object"} =>
         metadata_builder.field_names = last.md.field_names
    /\ ((FinishedList \/ FinishedObject) /\ PreParent.kind = "object") =>
         /\ metadata_builder.field_names = WithName(last.md.field_names, Gone.field_name)
         /\ Gone.field_name \notin Range(last.md.field_names) =>
              \A e \in Gone.upserted :
                 e[2] < IndexOfName(metadata_builder.field_names, Gone.field_name)
    /\ MetadataNames(OuterUnfinishedExample.metadata) = <<<<102>>, <<110>>, <<111>>>>
    /\ DecodeVariant(OuterUnfinishedExample.metadata, OuterUnfinishedExample.value) = VInt8(2)

\* A nested object under a new key finishes after it inserted a name that
\* was new: the name has id 1 and the key, upserted at the finish, id 2,
\* after the name the outer object inserted first.
C29_Witness ==
    /\ FinishedObject /\ PreParent.kind = "object"
    /\ Gone.field_name = NameB
    /\ Gone.upserted = {<<NameA, 1>>}
    /\ metadata_builder.field_names = <<NameAB, NameA, NameB>>

\* The keys of an object written more than once where one of the writes is
\* the finish of a child created with new_object(key) or new_list(key).
RewrittenWithChild(b) ==
    {b.writes[j].key : j \in {j \in 1..Len(b.writes) :
        \E i \in 1..(j - 1) :
            /\ b.writes[i].key = b.writes[j].key
            /\ "child" \in {b.writes[i].how, b.writes[j].how}}}

\* C30: the finish of an object with validation enabled in which a key was
\* written more than once, one of the writes being a finished nested child,
\* fails with the duplicate-fields error that names the key.
C30_ChildWriteIsDuplicate ==
    (/\ last.op = "finish_object"
     /\ Gone.validate_unique_fields) =>
        \A key \in RewrittenWithChild(Gone) :
            \E S \in SUBSET Names :
                key \in S /\ ErrorToString(last.res) = DuplicateFieldsText(S)

\* The offsets of a list builder against its buffer: they start at 0, lie
\* inside the buffer, and each element ends where the next one starts.
ListOffsetsInOrder(b) ==
    LET n == Len(b.offsets)
    IN  /\ n > 0 => b.offsets[1] = 0
        /\ \A i \in 1..n : b.offsets[i] < Len(b.buffer)
        /\ \A i \in 1..(n - 1) :
             /\ b.offsets[i] < b.offsets[i + 1]
             /\ b.offsets[i + 1] - b.offsets[i]
                  = ValueSize(SubSeq(b.buffer, b.offsets[i] + 1, Len(b.buffer)))

\* C31: between operations the offsets of every list builder are strictly
\* increasing from 0, each below the length of the builder's buffer, the gap
\* between two of them the encoded size of the element at the first; and
\* every element offset a finished list emits is below the data size that
\* follows them.
C31_ListOffsetsIncrease ==
    /\ \A i \in 1..Len(stack) : stack[i].kind = "list" => ListOffsetsInOrder(stack[i])
    /\ FinishedList =>
         LET w == WireArray(Emitted)
         IN  \A i \in 1..(Len(w.offsets) - 1) : w.offsets[i] < w.offsets[Len(w.offsets)]

\* A list holds a decoded object and, after it, a second element.
C31_Witness ==
    /\ Top.kind = "list"
    /\ Len(Top.offsets) = 2
    /\ Top.writes[1].value = PlainObject
    /\ Top.offsets[2] = Len(Top.writes[1].bytes)
    /\ Top.offsets[2] > 2

\* The field map of an object builder against the dictionary and its buffer:
\* ids the dictionary holds, one entry for each key written, offsets inside
\* the buffer.
FieldsInRange(b) ==
    /\ \A i \in 1..Len(b.fields) :
         /\ b.fields[i][1] \in 0..(Len(metadata_builder.field_names) - 1)
         /\ b.fields[i][2] \in 0..(Len(b.buffer) - 1)
    /\ {field_name(metadata_builder, b.fields[i][1]) : i \in 1..Len(b.fields)} = KeysWritten(b)
    /\ Len(b.fields) = Cardinality(KeysWritten(b))

\* C32: between operations every object builder's field map holds ids below
\* the dictionary length, one entry per distinct key written, and start
\* offsets below the length of the builder's buffer; the ids a finished
\* object emits are ids of the dictionary and its field offsets are below
\* the data size.
C32_FieldMapInRange ==
    /\ \A i \in 1..Len(stack) : stack[i].kind = "object" => FieldsInRange(stack[i])
    /\ FinishedObject =>
         LET w == WireObject(Emitted)
         IN  /\ \A i \in 1..Len(w.ids) : w.ids[i] < Len(metadata_builder.field_names)
             /\ \A i \in 1..Len(w.ids) : w.offsets[i] < w.offsets[Len(w.offsets)]

\* An object holds two keys after three writes, one of them the finish of a
\* child under a key inserted before.
C32_Witness ==
    /\ Top.kind = "object"
    /\ Len(Top.writes) = 3
    /\ Len(Top.fields) = 2
    /\ \E j \in 1..3 : Top.writes[j].how = "child"

\* The field map of the parent once the child under `id` is recorded at
\* `offset`: the entry of id is set, the others stay.
FieldSet(fields, id, offset) ==
    IF \E i \in 1..Len(fields) : fields[i][1] = id
    THEN [i \in 1..Len(fields) |-> IF fields[i][1] = id THEN <<id, offset>> ELSE fields[i]]
    ELSE fields \o <<<<id, offset>>>>

\* C33: the successful finish of a list or object leaves the builders above
\* the parent alone, keeps the parent's buffer and puts one whole array or
\* object after it, and records it once: a list parent gets the start of
\* the child as one more offset, an object parent gets the child's key set
\* to that start, the root gets nothing; the other offsets and fields stay.
C33_FinishChangesParentOnce ==
    ((FinishedList \/ FinishedObject) /\ last.res.ok) =>
        /\ Len(stack) = Len(PreStack) - 1
        /\ \A i \in 1..(Len(stack) - 1) : ParentSlots(stack[i]) = ParentSlots(PreStack[i])
        /\ Top.buffer = PreParent.buffer \o Emitted
        /\ Emitted # <<>>
        /\ Emitted[1] % 4 = (IF last.op = "finish_list" THEN BasicArray ELSE BasicObject)
        /\ ValueSize(Emitted) = Len(Emitted)
        /\ Top.validate_unique_fields = PreParent.validate_unique_fields
        /\ Top.duplicate_fields = PreParent.duplicate_fields
        /\ PreParent.kind = "variant" =>
             Top.offsets = PreParent.offsets /\ Top.fields = PreParent.fields
        /\ PreParent.kind = "list" =>
             /\ Top.offsets = Append(PreParent.offsets, Len(PreParent.buffer))
             /\ Top.fields = PreParent.fields
        /\ PreParent.kind = "object" =>
             /\ Top.offsets = PreParent.offsets
             /\ Top.fields = FieldSet(PreParent.fields,
                                      IndexOfName(metadata_builder.field_names, Gone.field_name),
                                      Len(PreParent.buffer))

\* An object with a field is finished into a list that held two elements.
C33_Witness ==
    /\ FinishedObject
    /\ PreParent.kind = "list"
    /\ PreParent.offsets = <<0, 2>>
    /\ Top.offsets = <<0, 2, 3>>
    /\ Len(Gone.fields) = 1

\* A value other than a decoded Object or List.
IsPrimitive(value) == value[1] \notin {"object", "list"}

\* What test_list_builder_to_list_builder_inner_no_finish builds:
\* new_list, append 1; new_list, append "hi", drop; append 2; finish; finish.
InnerListUnfinishedExample ==
    LET l1 == NewChildOf(new.stack, "list", <<>>)
        a1 == AppendValueTo(l1, new.md, VInt8(1))
        l2 == NewChildOf(a1.stack, "list", <<>>)
        a2 == AppendValueTo(l2, a1.md, VShortString(<<104, 105>>))
        a3 == AppendValueTo(Leave(a2.stack), a2.md, VInt8(2))
        f1 == list_finish(a3.stack, a3.md)
    IN  variant_finish(f1.stack[1], f1.md)

\* C34: append_value of a primitive on the root or a list leaves the
\* metadata builder as it was, names and is_sorted; insert of a primitive
\* upserts the key once and does nothing else to it; new_list, a drop and
\* the finish of a list into the root or a list leave it as it was, so a tree
\* of lists and primitives ends with no name: the test's run returns the
\* metadata of an empty dictionary and the list [1, 2].
C34_PrimitivesLeaveDictionary ==
    /\ (last.op = "append_value" /\ IsPrimitive(last.value)) =>
         /\ last.res.ok
         /\ metadata_builder = last.md
    /\ (last.op = "insert" /\ IsPrimitive(last.value)) =>
         /\ metadata_builder.upserts = Append(last.md.upserts, last.key)
         /\ metadata_builder.field_names = WithName(last.md.field_names, last.key)
         /\ metadata_builder.is_sorted =
              IF last.key \in Range(last.md.field_names) THEN last.md.is_sorted
              ELSE \/ last.md.field_names = <<>>
                   \/ /\ last.md.is_sorted
                      /\ StrLess(last.md.field_names[Len(last.md.field_names)], last.key)
    /\ (\/ last.op \in {"new_list", "drop"}
        \/ last.op = "finish_list" /\ PreParent.kind # "object") =>
         metadata_builder = last.md
    /\ MetadataNames(InnerListUnfinishedExample.metadata) = <<>>
    /\ InnerListUnfinishedExample.metadata = <<1, 0, 0>>
    /\ DecodeVariant(InnerListUnfinishedExample.metadata, InnerListUnfinishedExample.value)
         = VList(<<VInt8(1), VInt8(2)>>)

\* A two-byte integer is appended to a list after a decoded object whose
\* names the dictionary holds.
C34_Witness ==
    /\ last.op = "append_value"
    /\ last.value = VInt16(258)
    /\ Top.kind = "list"
    /\ Len(Top.writes) = 2
    /\ metadata_builder.field_names = <<NameA, NameB>>
    /\ metadata_builder.is_sorted

\* C35: the outcome of finish is the same whatever the order the set of
\* duplicate ids is iterated in: with validation on and a duplicate recorded
\* it is the one error whose message lists the names in ascending order, and
\* then nothing is written; otherwise it is Ok and the bytes emitted are
\* those the field map and the buffer determine.
C35_HashOrderNeverShows ==
    last.op = "finish_object" =>
        /\ \A iter \in HashSetIter(Gone.duplicate_fields) :
             last.res = IF Gone.validate_unique_fields /\ iter # <<>>
                        THEN DuplicateFieldsError(iter, last.md)
                        ELSE Ok
        /\ ~last.res.ok => Top = Leave(PreStack)[Len(stack)] /\ metadata_builder = last.md
        /\ last.res.ok =>
             /\ Emitted = ObjectFinishBytes(Gone, last.md)
             /\ metadata_builder.field_names = last.md.field_names

\* The finish of an object fails after the names b and a were each inserted
\* twice, b first: the message lists a before b.
C35_Witness ==
    /\ last.op = "finish_object" /\ ~last.res.ok
    /\ Cardinality(Gone.duplicate_fields) = 2
    /\ field_name(last.md, 0) = NameB
    /\ ErrorToString(last.res) = DuplicateFieldsText({NameA, NameB})

\* An object finished after inserts of primitives under distinct keys, each
\* a name given to with_field_names.
FinishedOverSeededKeys ==
    /\ FinishedObject
    /\ Gone.writes # <<>>
    /\ \A i \in 1..Len(Gone.writes) :
         /\ Gone.writes[i].how = "insert"
         /\ IsPrimitive(Gone.writes[i].value)
         /\ Gone.writes[i].key \in Range(given.metadata)
    /\ Len(Gone.writes) = Cardinality(KeysWritten(Gone))

\* The same keys and values inserted in ascending order of the keys into an
\* object of a builder given the same names, and the bytes its finish emits.
InNameOrder ==
    LET keys == Ascending(KeysWritten(Gone))
    IN  InsertAll(TopOf(NewChildOf(new.stack, "object", <<>>)),
                  with_field_names(new.md, given.metadata),
                  [i \in 1..Len(keys) |->
                      <<keys[i], Gone.writes[LastWrite(Gone, keys[i])].value>>])
EmittedInNameOrder == ObjectFinishBytes(InNameOrder.builder, InNameOrder.md)

\* C36: whatever the order of the inserts, the dictionary and is_sorted are
\* those with_field_names left, and the object emitted has the header, the
\* field ids, the size and the decoded (name, value) list of the object
\* emitted when the keys are inserted in name order.
C36_InsertionOrderShowsInDataOnly ==
    FinishedOverSeededKeys =>
        /\ metadata_builder.field_names = given.metadata
        /\ metadata_builder.is_sorted = with_field_names(new.md, given.metadata).is_sorted
        /\ WireObject(Emitted).ids = WireObject(EmittedInNameOrder).ids
        /\ Emitted[1] = EmittedInNameOrder[1]
        /\ Len(Emitted) = Len(EmittedInNameOrder)
        /\ DecodeValue(given.metadata, Emitted) = DecodeValue(given.metadata, EmittedInNameOrder)

\* b, ab and a are inserted in that order into a builder given [b, a, ab]:
\* the ids are emitted in name order and a's value lies last in the data.
C36_Witness ==
    /\ FinishedOverSeededKeys
    /\ given.metadata = <<NameB, NameA, NameAB>>
    /\ WireObject(Emitted).ids = <<1, 2, 0>>
    /\ WireObject(Emitted).offsets = <<5, 3, 0, 6>>
    /\ Emitted # EmittedInNameOrder

\* C37: an append or insert of a ShortString of L bytes writes the byte
\* L * 4 + 1 and the L bytes, 1 + L bytes in all; one of a String writes the
\* header of the String primitive, L in four little-endian bytes and the L
\* bytes, 5 + L bytes in all, also when L is 63 or less; "hello" appended as
\* a ShortString to a fresh builder gives a value that starts with 21.
C37_StringFormFollowsTag ==
    /\ (last.op \in {"append_value", "insert"} /\ last.value[1] = "short_string") =>
         LET L == Len(last.value[2])
         IN  /\ Len(Written) = 1 + L
             /\ Written[1] = L * 4 + BasicShortString
             /\ SubSeq(Written, 2, 1 + L) = last.value[2]
    /\ (last.op \in {"append_value", "insert"} /\ last.value[1] = "string") =>
         LET L == Len(last.value[2])
         IN  /\ Len(Written) = 5 + L
             /\ Written[1] % 4 = BasicPrimitive
             /\ Written[1] \div 4 = PrimString
             /\ ReadLE(Written, 2, 4) = L
             /\ SubSeq(Written, 6, 5 + L) = last.value[2]
    /\ AppendValueTo(new.stack, new.md, VShortString(<<104, 101, 108, 108, 111>>)).stack[1].buffer
         = <<21, 104, 101, 108, 108, 111>>

\* A String of 63 bytes is appended after a ShortString of the same 63
\* bytes: 68 bytes after 64.
C37_Witness ==
    /\ last.op = "append_value"
    /\ last.value = VString(Text63)
    /\ Len(Top.writes) = 2
    /\ Top.writes[1].value = VShortString(Text63)
    /\ Len(Top.writes[1].bytes) = 64
    /\ Len(Written) = 68
    /\ Written[1] = 64

====
